---- MODULE Spec2Model ----
(***************************************************************************)
(* Othello GUI: the match state machine (Game), the agent process          *)
(* supervisor (AI / AIRunHandle), the two-variant player (MixedPlayer),    *)
(* the visual front-end's use of one Game, and the arena scheduler         *)
(* (AIArena).                                                              *)
(***************************************************************************)
EXTENDS Integers, Sequences, FiniteSets, TLC

(***************************************************************************)
(* Bounds of the model.                                                    *)
(***************************************************************************)
\* The board is BoardW columns by BoardH rows (the program's is 8 by 8,
\* Vec2::is_in_board); the rules are the program's, the board is smaller so
\* that whole games are explored.
BoardW == 3
BoardH == 3
\* Number of matches an arena is constructed with.
NumGames == 2
\* Largest max_concurrency an arena is constructed with.
MaxConcurrency == 2

(***************************************************************************)
(* Tiles, squares and the board rules.                                     *)
(***************************************************************************)
None == "None"

X == "X"
O == "O"
Empty == "Empty"
Tile == {X, O, Empty}

\* `tile as usize`: X = 0, O = 1, Empty = 2.
TileIdx(t) == IF t = X THEN 0 ELSE IF t = O THEN 1 ELSE 2

\* Tile::opponent; it panics on Empty, which no caller below passes.
Opponent(t) == IF t = X THEN O ELSE X

\* Tile::opponent_iter yields X, then O.
OpponentIter == <<X, O>>

Vec2(x, y) == <<x, y>>

is_in_board(v) == v[1] \in 0..(BoardW - 1) /\ v[2] \in 0..(BoardH - 1)

Cells == (0..(BoardW - 1)) \X (0..(BoardH - 1))

Steps == {s \in (-1..1) \X (-1..1) : s # <<0, 0>>}

\* Board::empty and Board::new: the four centre squares, O on the main
\* diagonal and X on the other.
BoardEmpty == [c \in Cells |-> Empty]

BoardNew ==
    LET cx == (BoardW \div 2) - 1
        cy == (BoardH \div 2) - 1
    IN [c \in Cells |->
            IF c = <<cx, cy>> \/ c = <<cx + 1, cy + 1>> THEN O
            ELSE IF c = <<cx, cy + 1>> \/ c = <<cx + 1, cy>> THEN X
            ELSE Empty]

PosNew == [board |-> BoardNew, next_player |-> X]

At(place, step, n) == <<place[1] + n * step[1], place[2] + n * step[2]>>

\* The walk of Pos::place in one direction: the number of steps from `place`
\* to the first square that is off the board or not the opponent's.
RECURSIVE RayLen(_, _, _, _, _)
RayLen(board, me, place, step, n) ==
    IF is_in_board(At(place, step, n)) /\ board[At(place, step, n)] = Opponent(me)
    THEN RayLen(board, me, place, step, n + 1)
    ELSE n

\* The squares Pos::place flips in one direction, the walk having ended n
\* steps away: those in between when the walk ended on an own disk.
RayFlipsTo(board, me, place, step, n) ==
    IF is_in_board(At(place, step, n)) /\ board[At(place, step, n)] = me
    THEN {At(place, step, k) : k \in 1..(n - 1)}
    ELSE {}

RayFlips(board, me, place, step) ==
    RayFlipsTo(board, me, place, step, RayLen(board, me, place, step, 1))

Flips(board, me, place) == UNION {RayFlips(board, me, place, s) : s \in Steps}

\* Pos::place: put a disk, flip, hand the turn over.
PlaceFlipping(pos, place, fl) ==
    [board |-> [c \in Cells |->
                  IF c = place \/ c \in fl THEN pos.next_player ELSE pos.board[c]],
     next_player |-> Opponent(pos.next_player)]

Place(pos, place) == PlaceFlipping(pos, place, Flips(pos.board, pos.next_player, place))

\* Pos::valid_moves
valid_moves(pos) ==
    {c \in Cells : pos.board[c] = Empty /\ Flips(pos.board, pos.next_player, c) # {}}

\* Pos::is_valid_move
is_valid_move(pos, mv) == pos.next_player # Empty /\ mv \in valid_moves(pos)

\* Pos::is_game_over: no empty square where either side would flip.
PosIsGameOver(pos) ==
    \A c \in Cells :
        pos.board[c] # Empty
        \/ \A i \in 1..2 : Flips(pos.board, OpponentIter[i], c) = {}

\* Pos::play: place, and pass the turn back when the side to move has no
\* move; when neither side has one the game is over and nobody is next.
PassTurn(p1, mover) ==
    IF valid_moves(p1) # {} THEN p1
    ELSE IF valid_moves([p1 EXCEPT !.next_player = mover]) # {}
         THEN [p1 EXCEPT !.next_player = mover]
         ELSE [p1 EXCEPT !.next_player = Empty]

PosPlay(pos, mv) == PassTurn(Place(pos, mv), pos.next_player)

Count(board, t) == Cardinality({c \in Cells : board[c] = t})

\* Pos::winner: the side with more disks, Empty for a draw.
PosWinner(pos) ==
    IF Count(pos.board, X) > Count(pos.board, O) THEN X
    ELSE IF Count(pos.board, O) > Count(pos.board, X) THEN O
    ELSE Empty

(***************************************************************************)
(* The agent's answer on stdout: a string is a sequence of characters.     *)
(***************************************************************************)
Letters == <<"a", "b", "c", "d", "e", "f", "g", "h">>
Digits == <<"1", "2", "3", "4", "5", "6", "7", "8">>

Range(f) == {f[i] : i \in DOMAIN f}

IndexOf(seq, ch) == CHOOSE i \in DOMAIN seq : seq[i] = ch

IsWhitespace(ch) == ch \in {" ", "\n", "\t", "\r"}

RECURSIVE TrimStart(_)
TrimStart(s) ==
    IF s # <<>> /\ IsWhitespace(Head(s)) THEN TrimStart(Tail(s)) ELSE s

RECURSIVE TrimEnd(_)
TrimEnd(s) ==
    IF s # <<>> /\ IsWhitespace(s[Len(s)])
    THEN TrimEnd(SubSeq(s, 1, Len(s) - 1))
    ELSE s

\* str::trim
Trim(s) == TrimEnd(TrimStart(s))

\* str::split('\n'): always at least one piece.
RECURSIVE SplitLines(_, _)
SplitLines(s, cur) ==
    IF s = <<>> THEN <<cur>>
    ELSE IF Head(s) = "\n" THEN <<cur>> \o SplitLines(Tail(s), <<>>)
    ELSE SplitLines(Tail(s), Append(cur, Head(s)))

\* Vec2::move_string, as AI::input writes the legal moves.
move_string(mv) == <<Letters[mv[1] + 1], Digits[mv[2] + 1]>>

(***************************************************************************)
(* AIRunHandle: the child process.                                         *)
(*   child: "alive" (try_wait has not yet seen it exit), "killed",         *)
(*          "exited_ok" / "exited_err" (try_wait has seen it exit).        *)
(* start is not kept: check reads the clock only for a child that is alive *)
(* and kills it the first time it reads it past the time limit, so the     *)
(* time elapsed since start is part of what a poll observes.               *)
(***************************************************************************)
\* ai_run_handle: None
NoHandle == [child |-> "none"]

NewHandle == [child |-> "alive"]

\* AIRunHandle::kill leaving the child running.
kill_spared(h) == h

\* AIRunHandle::kill
kill(h) == IF h.child = "alive" THEN [child |-> "killed"] ELSE h

Running == [tag |-> "Running", mv |-> <<>>, notes |-> <<>>]
TimeOut == [tag |-> "TimeOut", mv |-> <<>>, notes |-> <<>>]
RuntimeError == [tag |-> "RuntimeError", mv |-> <<>>, notes |-> <<>>]
InvalidOuput == [tag |-> "InvalidOuput", mv |-> <<>>, notes |-> <<>>]
\* check() not returning: an expect in it failed.
Panicked == [tag |-> "Panicked", mv |-> <<>>, notes |-> <<>>]
Success(mv, notes) == [tag |-> "Success", mv |-> mv, notes |-> notes]

\* handle_finished_child taking the digit itself as the row.
DecodeMove_onebased(output) ==
    IF Len(output[1]) # 2 THEN InvalidOuput
    ELSE IF output[1][1] \notin Range(Letters) THEN InvalidOuput
    ELSE IF output[1][2] \notin Range(Digits) THEN InvalidOuput
    ELSE Success(Vec2(IndexOf(Letters, output[1][1]) - 1,
                      IndexOf(Digits, output[1][2])),
                 IF Len(output) = 2 THEN output[2] ELSE <<>>)

\* AIRunHandle::handle_finished_child, from `let move_string = output[0]`
\* on: output is the trimmed lines.
DecodeMove(output) ==
    IF Len(output[1]) # 2 THEN InvalidOuput
    ELSE IF output[1][1] \notin Range(Letters) THEN InvalidOuput
    ELSE IF output[1][2] \notin Range(Digits) THEN InvalidOuput
    ELSE Success(Vec2(IndexOf(Letters, output[1][1]) - 1,
                      IndexOf(Digits, output[1][2]) - 1),
                 IF Len(output) = 2 THEN output[2] ELSE <<>>)

TrimEach(split) == [i \in DOMAIN split |-> Trim(split[i])]

\* handle_finished_child without its check of the number of lines.
DecodeLines_anycount(output) == DecodeMove(output)

DecodeLines(output) ==
    IF ~(Len(output) \in 1..2) THEN InvalidOuput ELSE DecodeMove(output)

\* A byte sequence that is not UTF-8, as one element of a stream.
BadByte == "\\xFF"

\* Read::read_to_string: an error when the stream is not valid UTF-8.
IsUtf8(stream) == \A i \in DOMAIN stream : stream[i] # BadByte

\* handle_finished_child misreading a non-zero exit as a success.
handle_finished_child_anystatus(success, stdout, stderr) ==
    IF ~IsUtf8(stdout) THEN Panicked
    ELSE DecodeLines(TrimEach(SplitLines(Trim(stdout), <<>>)))

\* AIRunHandle::handle_finished_child: on a non-zero status stderr is read
\* and stdout is not; each read_to_string is followed by an expect.
handle_finished_child(success, stdout, stderr) ==
    IF ~success
    THEN IF ~IsUtf8(stderr) THEN Panicked ELSE RuntimeError
    ELSE IF ~IsUtf8(stdout) THEN Panicked
    ELSE DecodeLines(TrimEach(SplitLines(Trim(stdout), <<>>)))

\* AI.time_limit, in ticks of the clock.
TimeLimit == 2

\* What the operating system shows of a child at one poll: the time elapsed
\* since it was started and either that it is still running (try_wait gives
\* None) or the status it exited with and what it wrote to stdout and
\* stderr.
ObsAlive(elapsed) ==
    [kind |-> "alive", elapsed |-> elapsed, success |-> FALSE,
     stdout |-> <<>>, stderr |-> <<>>]
ObsExitAt(elapsed, success, stdout, stderr) ==
    [kind |-> "exit", elapsed |-> elapsed, success |-> success,
     stdout |-> stdout, stderr |-> stderr]

ObsRunning == ObsAlive(0)
ObsLate == ObsAlive(TimeLimit + 1)
ObsExit(success, stdout) == ObsExitAt(0, success, stdout, <<>>)

\* check comparing with >= where the program compares with >.
check_atlimit(h, obs) ==
    IF h.child = "alive" THEN
        IF obs.kind = "exit"
        THEN [h |-> [child |-> IF obs.success THEN "exited_ok" ELSE "exited_err"],
              res |-> handle_finished_child(obs.success, obs.stdout, obs.stderr)]
        ELSE IF obs.elapsed >= TimeLimit
             THEN [h |-> kill(h), res |-> TimeOut]
             ELSE [h |-> h, res |-> Running]
    ELSE [h |-> h, res |-> handle_finished_child(h.child = "exited_ok", <<>>, <<>>)]

\* check reporting a time-out without killing the child.
check_nokill(h, obs) ==
    IF h.child = "alive" THEN
        IF obs.kind = "exit"
        THEN [h |-> [child |-> IF obs.success THEN "exited_ok" ELSE "exited_err"],
              res |-> handle_finished_child(obs.success, obs.stdout, obs.stderr)]
        ELSE IF obs.elapsed > TimeLimit
             THEN [h |-> h, res |-> TimeOut]
             ELSE [h |-> h, res |-> Running]
    ELSE [h |-> h, res |-> handle_finished_child(h.child = "exited_ok", <<>>, <<>>)]

\* check looking at the deadline before it looks at the exit.
check_deadlinefirst(h, obs) ==
    IF h.child = "alive" THEN
        IF obs.elapsed > TimeLimit
        THEN [h |-> kill(h), res |-> TimeOut]
        ELSE IF obs.kind = "exit"
             THEN [h |-> [child |-> IF obs.success THEN "exited_ok" ELSE "exited_err"],
                   res |-> handle_finished_child(obs.success, obs.stdout, obs.stderr)]
             ELSE [h |-> h, res |-> Running]
    ELSE [h |-> h, res |-> handle_finished_child(h.child = "exited_ok", <<>>, <<>>)]

\* AIRunHandle::check: try_wait first, the deadline only for a live child.
\* A child that was killed reports a signal status; one that try_wait has
\* already reaped reports its status again and its pipes are drained.
check(h, obs) ==
    IF h.child = "alive" THEN
        IF obs.kind = "exit"
        THEN [h |-> [child |-> IF obs.success THEN "exited_ok" ELSE "exited_err"],
              res |-> handle_finished_child(obs.success, obs.stdout, obs.stderr)]
        ELSE IF obs.elapsed > TimeLimit
             THEN [h |-> kill(h), res |-> TimeOut]
             ELSE [h |-> h, res |-> Running]
    ELSE [h |-> h, res |-> handle_finished_child(h.child = "exited_ok", <<>>, <<>>)]

(***************************************************************************)
(* Players: AI (Player for AI) and MixedPlayer.                            *)
(***************************************************************************)
AIPlayer(path) == [kind |-> "AI", path |-> path, ai_run_handle |-> NoHandle]
HumanPlayer == [kind |-> "Human", path |-> "human", ai_run_handle |-> NoHandle]

Wait == [tag |-> "Wait", mv |-> <<>>]
Fail == [tag |-> "Fail", mv |-> <<>>]
Ok(mv) == [tag |-> "Ok", mv |-> <<mv>>]

\* AI::run behind AI::init, the spawn having succeeded.
AIInit(p) == [p EXCEPT !.ai_run_handle = NewHandle]

\* AI::update dropping the run handle whatever check() returned.
AIUpdateOn_drop(p, pos, c) ==
    IF c.res.tag = "Panicked" THEN [p |-> p, res |-> Wait, halt |-> "panic"]
    ELSE IF c.res.tag = "Running"
    THEN [p |-> [p EXCEPT !.ai_run_handle = NoHandle], res |-> Wait, halt |-> None]
    ELSE IF c.res.tag \in {"InvalidOuput", "RuntimeError", "TimeOut"}
    THEN [p |-> [p EXCEPT !.ai_run_handle = NoHandle], res |-> Fail, halt |-> None]
    ELSE [p |-> [p EXCEPT !.ai_run_handle = NoHandle],
          res |-> IF is_valid_move(pos, c.res.mv) THEN Ok(c.res.mv) ELSE Fail,
          halt |-> None]

\* AI::update passing on every Success without pos.is_valid_move.
AIUpdateOn_trust(p, pos, c) ==
    IF c.res.tag = "Panicked" THEN [p |-> p, res |-> Wait, halt |-> "panic"]
    ELSE IF c.res.tag = "Running"
    THEN [p |-> [p EXCEPT !.ai_run_handle = c.h], res |-> Wait, halt |-> None]
    ELSE IF c.res.tag \in {"InvalidOuput", "RuntimeError", "TimeOut"}
    THEN [p |-> [p EXCEPT !.ai_run_handle = c.h], res |-> Fail, halt |-> None]
    ELSE [p |-> [p EXCEPT !.ai_run_handle = NoHandle], res |-> Ok(c.res.mv), halt |-> None]

\* AI::update, the match on check()'s result c.  A Success drops the handle;
\* a panic inside check() unwinds through update.
AIUpdateOn(p, pos, c) ==
    IF c.res.tag = "Panicked" THEN [p |-> p, res |-> Wait, halt |-> "panic"]
    ELSE IF c.res.tag = "Running"
    THEN [p |-> [p EXCEPT !.ai_run_handle = c.h], res |-> Wait, halt |-> None]
    ELSE IF c.res.tag \in {"InvalidOuput", "RuntimeError", "TimeOut"}
    THEN [p |-> [p EXCEPT !.ai_run_handle = c.h], res |-> Fail, halt |-> None]
    ELSE [p |-> [p EXCEPT !.ai_run_handle = NoHandle],
          res |-> IF is_valid_move(pos, c.res.mv) THEN Ok(c.res.mv) ELSE Fail,
          halt |-> None]

\* AI::update. halt = "panic" is the failed expect on a missing run handle.
AIUpdate(p, pos, obs) ==
    IF p.ai_run_handle = NoHandle
    THEN [p |-> p, res |-> Wait, halt |-> "panic"]
    ELSE AIUpdateOn(p, pos, check(p.ai_run_handle, obs))

\* AI::interrupt. halt = "panic" is the unwrap of a missing run handle.
AIInterrupt(p) ==
    IF p.ai_run_handle = NoHandle
    THEN [p |-> p, halt |-> "panic"]
    ELSE [p |-> [p EXCEPT !.ai_run_handle = kill(p.ai_run_handle)], halt |-> None]

\* impl Player for MixedPlayer
PlayerInit(p) == IF p.kind = "AI" THEN AIInit(p) ELSE p

PlayerUpdate(p, pos, obs) ==
    IF p.kind = "AI" THEN AIUpdate(p, pos, obs)
    ELSE [p |-> p, res |-> Wait, halt |-> None]

PlayerInterrupt(p) ==
    IF p.kind = "AI" THEN AIInterrupt(p) ELSE [p |-> p, halt |-> None]

(***************************************************************************)
(* Game<P>: id, pos, history, players, winner.  A history entry is the     *)
(* pair (Pos, Option<Vec2>); the option is <<>> for None and <<mv>> for    *)
(* Some(mv).  An operation yields the game after it and `halt`: None when  *)
(* it returned, "panic" when it panicked, and `inits`: how many times it   *)
(* called a player's init on an AI (each is one spawn).                    *)
(***************************************************************************)
\* Game::from_pos
from_pos(id, players, pos) ==
    [id |-> id, pos |-> pos, history |-> <<<<pos, <<>>>>>>,
     players |-> players, winner |-> None]

\* Game::new
GameNew(id, players) == from_pos(id, players, PosNew)

\* Game::is_game_over
is_game_over(g) == g.winner # None

\* Game::next_player / next_player_mut: the index into players, NoPlayer
\* (the Option's None) when the match is over.  An index of 2 (pos.next_player = Empty) is out of
\* bounds for [P; 2].
NoPlayer == 0 - 1

\* next_player deciding by the position instead of by winner.
next_player_by_pos(g) ==
    IF PosIsGameOver(g.pos) THEN NoPlayer ELSE TileIdx(g.pos.next_player)

next_player(g) == IF is_game_over(g) THEN NoPlayer ELSE TileIdx(g.pos.next_player)

Ret(g) == [g |-> g, halt |-> None, inits |-> 0]
Panic(g) == [g |-> g, halt |-> "panic", inits |-> 0]

\* Game::play pushing the position it played from.
Played_stale(g, mv, pos1) ==
    [g EXCEPT !.pos = pos1,
              !.history = Append(@, <<g.pos, <<mv>>>>),
              !.winner = IF PosIsGameOver(pos1) THEN PosWinner(pos1) ELSE @]

\* Game::play without its test of pos.is_game_over().
Played_nowinner(g, mv, pos1) ==
    [g EXCEPT !.pos = pos1, !.history = Append(@, <<pos1, <<mv>>>>)]

\* Game::play, pos1 being self.pos after self.pos.play(mv).
Played(g, mv, pos1) ==
    [g EXCEPT !.pos = pos1,
              !.history = Append(@, <<pos1, <<mv>>>>),
              !.winner = IF PosIsGameOver(pos1) THEN PosWinner(pos1) ELSE @]

\* Game::play
play(g, mv) == Played(g, mv, PosPlay(g.pos, mv))

\* Game::initialize_next_player, i being next_player_mut().
InitPlayer(g, i) ==
    IF i = NoPlayer THEN Ret([g EXCEPT !.winner = PosWinner(g.pos)])
    ELSE IF i = 2 THEN Panic(g)
    ELSE [g |-> [g EXCEPT !.players[i + 1] = PlayerInit(@)],
          halt |-> None,
          inits |-> IF g.players[i + 1].kind = "AI" THEN 1 ELSE 0]

\* Game::initialize_next_player
initialize_next_player(g) == InitPlayer(g, next_player(g))

\* Game::initialize
initialize(g) == initialize_next_player(g)

WithRes(r, res) == [g |-> r.g, halt |-> r.halt, inits |-> r.inits, res |-> res]

\* Game::update aborting on UpdateResult::Fail.
UpdateOn_abort(g, i, u) ==
    IF u.halt # None THEN WithRes(Panic(g), "Skip")
    ELSE IF u.res.tag = "Ok"
    THEN WithRes(initialize_next_player(
                    play([g EXCEPT !.players[i + 1] = u.p], u.res.mv[1])), "Ok")
    ELSE IF u.res.tag = "Fail"
    THEN WithRes(Panic([g EXCEPT !.players[i + 1] = u.p,
                                 !.winner = Opponent(g.pos.next_player)]), "Fail")
    ELSE WithRes(Ret([g EXCEPT !.players[i + 1] = u.p]), "Wait")

\* Game::update without the initialize_next_player after play.
UpdateOn_noinit(g, i, u) ==
    IF u.halt # None THEN WithRes(Panic(g), "Skip")
    ELSE IF u.res.tag = "Ok"
    THEN WithRes(Ret(play([g EXCEPT !.players[i + 1] = u.p], u.res.mv[1])), "Ok")
    ELSE IF u.res.tag = "Fail"
    THEN WithRes(Ret([g EXCEPT !.players[i + 1] = u.p,
                               !.winner = Opponent(g.pos.next_player)]), "Fail")
    ELSE WithRes(Ret([g EXCEPT !.players[i + 1] = u.p]), "Wait")

\* Game::update giving a forfeited match to the side that forfeited.
UpdateOn_self(g, i, u) ==
    IF u.halt # None THEN WithRes(Panic(g), "Skip")
    ELSE IF u.res.tag = "Ok"
    THEN WithRes(initialize_next_player(
                    play([g EXCEPT !.players[i + 1] = u.p], u.res.mv[1])), "Ok")
    ELSE IF u.res.tag = "Fail"
    THEN WithRes(Ret([g EXCEPT !.players[i + 1] = u.p,
                               !.winner = g.pos.next_player]), "Fail")
    ELSE WithRes(Ret([g EXCEPT !.players[i + 1] = u.p]), "Wait")

\* Game::update, the match on the polled player's result u; i is the index
\* of the player that was on turn.
UpdateOn(g, i, u) ==
    IF u.halt # None THEN WithRes(Panic(g), "Skip")
    ELSE IF u.res.tag = "Ok"
    THEN WithRes(initialize_next_player(
                    play([g EXCEPT !.players[i + 1] = u.p], u.res.mv[1])), "Ok")
    ELSE IF u.res.tag = "Fail"
    THEN WithRes(Ret([g EXCEPT !.players[i + 1] = u.p,
                               !.winner = Opponent(g.pos.next_player)]), "Fail")
    ELSE WithRes(Ret([g EXCEPT !.players[i + 1] = u.p]), "Wait")

UpdatePlayer(g, i, obs) ==
    IF i = NoPlayer THEN WithRes(Ret(g), "Skip")
    ELSE IF i = 2 THEN WithRes(Panic(g), "Skip")
    ELSE UpdateOn(g, i, PlayerUpdate(g.players[i + 1], g.pos, obs))

\* Game::update; `res` is what the on-turn player's update returned, "Skip"
\* when the match was over and no player was polled.  obs is what the
\* player's child process shows at this poll.
update(g, obs) == UpdatePlayer(g, next_player(g), obs)

InterruptOn(g, i, r) ==
    [g |-> [g EXCEPT !.players[i + 1] = r.p], halt |-> r.halt, inits |-> 0]

InterruptPlayer(g, i) ==
    IF i = NoPlayer THEN Ret(g)
    ELSE IF i = 2 THEN Panic(g)
    ELSE InterruptOn(g, i, PlayerInterrupt(g.players[i + 1]))

\* Game::manual_interrupt
manual_interrupt(g) == InterruptPlayer(g, next_player(g))

\* manual_undo leaving pos as it was.
UndoTo_keeppos(g, h) ==
    IF h = <<>> THEN Panic([g EXCEPT !.winner = None, !.history = h])
    ELSE Ret([g EXCEPT !.winner = None, !.history = h])

\* manual_undo without the expect on the last entry.
UndoTo_lenient(g, h) ==
    Ret([g EXCEPT !.winner = None, !.history = h,
                  !.pos = IF h = <<>> THEN @ ELSE h[Len(h)][1]])

\* Game::manual_undo, h being the history after the pop; the expect on an
\* empty history panics.
UndoTo(g, h) ==
    IF h = <<>> THEN Panic([g EXCEPT !.winner = None, !.history = h])
    ELSE Ret([g EXCEPT !.winner = None, !.history = h, !.pos = h[Len(h)][1]])

\* Game::manual_undo
manual_undo(g) == UndoTo(g, SubSeq(g.history, 1, Len(g.history) - 1))

\* Vec::pop made n times: a pop of an empty Vec does nothing.
PopN(h, n) == SubSeq(h, 1, IF Len(h) > n THEN Len(h) - n ELSE 0)

\* Game::undo after its interrupt: winner = None, the pops, pos = the last
\* entry's position.
UndoPop(a, n) == IF a.halt # None THEN a ELSE UndoTo(a.g, PopN(a.g.history, n))

\* Visual::undo breaking after its first manual_undo, whoever is on turn.
UndoStep_first(r) == r

\* Visual::undo, the loop: r is the result of the manual_undo just made.
RECURSIVE UndoLoop(_)
UndoStep(r) ==
    IF r.halt # None THEN r
    ELSE IF next_player(r.g) = 2 THEN Panic(r.g)
    ELSE IF r.g.players[next_player(r.g) + 1].kind = "Human" THEN r
    ELSE UndoLoop(r.g)

UndoLoop(g) == IF Len(g.history) >= 2 THEN UndoStep(manual_undo(g)) ELSE Ret(g)

UndoAfterInterrupt(a) == IF a.halt # None THEN a ELSE UndoLoop(a.g)

UndoResume(b) == IF b.halt # None THEN b ELSE initialize_next_player(b.g)

\* Visual::undo
VisualUndo(g) ==
    IF g.players[1].kind = "AI" /\ g.players[2].kind = "AI" THEN Ret(g)
    ELSE UndoResume(UndoAfterInterrupt(manual_interrupt(g)))

\* Game::undo without its initialize_next_player.
undo_noresume(g, moves) == UndoPop(manual_interrupt(g), moves)

\* Game::undo
undo(g, moves) == UndoResume(UndoPop(manual_interrupt(g), moves))

\* The documented manual sequence: manual_interrupt, k calls of manual_undo,
\* then initialize_next_player; a panic ends it where it happens.
RECURSIVE ManualUndoN(_, _)
ManualUndoN(a, k) ==
    IF a.halt # None \/ k = 0 THEN a ELSE ManualUndoN(manual_undo(a.g), k - 1)

ManualSeq(g, k) == UndoResume(ManualUndoN(manual_interrupt(g), k))

\* Game::play called once per move of a list of moves.
RECURSIVE Replay(_, _)
Replay(g, moves) ==
    IF moves = <<>> THEN g ELSE Replay(play(g, Head(moves)), Tail(moves))

\* The front-end's left click on square mv: only a human on turn may place,
\* only a legal move is played, and the on-turn player is then initialized.
ClickOn(g, i, mv) ==
    IF i = NoPlayer THEN Ret(g)
    ELSE IF i = 2 THEN Panic(g)
    ELSE IF g.players[i + 1].kind # "Human" THEN Ret(g)
    ELSE initialize_next_player(IF is_valid_move(g.pos, mv) THEN play(g, mv) ELSE g)

HandleClick(g, mv) == ClickOn(g, next_player(g), mv)

(***************************************************************************)
(* What an agent may write before it exits: a move token for a square of   *)
(* the board, with or without a note, a token off the board, and malformed *)
(* answers.                                                                *)
(***************************************************************************)
Stdouts ==
    {move_string(c) : c \in Cells}
    \cup {move_string(<<0, 0>>) \o <<"\n">>,
          <<" ">> \o move_string(<<1, 0>>) \o <<" ", "\n", "o", "k", "\n">>,
          <<"h", "8">>, <<"z", "9">>, <<"a", "9">>, <<"a">>, <<>>,
          <<"a", "1", "\n", "x", "\n", "y">>}

\* What a poll may observe: a child alive at any time up to one tick past
\* the time limit; a non-zero exit, whatever stdout and stderr hold; a zero
\* exit with any of Stdouts, in time, or past the time limit for a move
\* token; a zero exit with bytes on stdout that are not UTF-8.
Observations ==
    {ObsAlive(e) : e \in 0..(TimeLimit + 1)}
    \cup {ObsExit(FALSE, <<>>), ObsExit(FALSE, move_string(<<0, 0>>)),
          ObsExitAt(0, FALSE, <<>>, <<BadByte>>)}
    \cup {ObsExit(TRUE, s) : s \in Stdouts}
    \cup {ObsExitAt(TimeLimit + 1, TRUE, move_string(c), <<>>) : c \in Cells}
    \cup {ObsExit(TRUE, <<BadByte>>)}

PlayerPairs == {<<a, b>> : a \in {AIPlayer("ai1"), HumanPlayer}, b \in {AIPlayer("ai2"), HumanPlayer}}

(***************************************************************************)
(* AIArena.  An arena is the record of its fields games, showed_game_idx,  *)
(* first_unstarted, max_concurrency and submode; games is 1-based here, so *)
(* the program's games[i] is games[i + 1].                                 *)
(***************************************************************************)
\* handle_compare_mode: the opening positions `depth` plies deep, the first
\* move fixed.
Depth == 3
FirstMove == Vec2(1, 2)

RECURSIVE tree_end(_, _)
tree_end(pos, depth) ==
    IF depth = 0 THEN {pos}
    ELSE UNION {tree_end(PosPlay(pos, mv), depth - 1) : mv \in valid_moves(pos)}

possible_starts == tree_end(PosPlay(PosNew, FirstMove), Depth - 1)

\* The openings an arena is given here: those with two plies left to play.
ArenaStarts == {p \in possible_starts : tree_end(p, 2) # {}}

\* handle_compare_mode: game 2i has player_a first, game 2i + 1 player_b, on
\* the same start.
CompareGame(id, start) ==
    from_pos(id,
             IF id % 2 = 0 THEN <<AIPlayer("ai1"), AIPlayer("ai2")>>
                           ELSE <<AIPlayer("ai2"), AIPlayer("ai1")>>,
             start)

\* AIArena::new
ArenaNew(gs, max_concurrency_, submode_) ==
    [games |-> gs, showed_game_idx |-> 0, first_unstarted |-> 0,
     max_concurrency |-> max_concurrency_, submode |-> submode_]

Ongoing(a) == Cardinality({i \in 1..a.first_unstarted : ~is_game_over(a.games[i])})

Min(x, y) == IF x < y THEN x ELSE y

\* The loop of start_new_games without its first_unstarted += 1.
StartRange_still(a, to, r) ==
    [a |-> [a EXCEPT !.games = [i \in DOMAIN a.games |->
                                  IF i \in DOMAIN r THEN r[i].g ELSE @[i]]],
     halt |-> IF \E i \in DOMAIN r : r[i].halt # None THEN "panic" ELSE None,
     inits |-> Cardinality({i \in DOMAIN r : r[i].inits > 0})]

\* AIArena::start_new_games, the loop over games[first_unstarted..to]: r[i]
\* is initialize() of the i-th.
StartRange(a, to, r) ==
    [a |-> [a EXCEPT !.games = [i \in DOMAIN a.games |->
                                  IF i \in DOMAIN r THEN r[i].g ELSE @[i]],
                     !.first_unstarted = IF to > @ THEN to ELSE @],
     halt |-> IF \E i \in DOMAIN r : r[i].halt # None THEN "panic" ELSE None,
     inits |-> Cardinality({i \in DOMAIN r : r[i].inits > 0})]

StartUpTo(a, to) ==
    StartRange(a, to, [i \in (a.first_unstarted + 1)..to |-> initialize(a.games[i])])

\* AIArena::start_new_games, can_start being max_concurrency - ongoing;
\* halt = "panic" is that subtraction going below zero.
StartFrom(a, can_start) ==
    IF can_start < 0 THEN [a |-> a, halt |-> "panic", inits |-> 0]
    ELSE StartUpTo(a, Min(a.first_unstarted + can_start, Len(a.games)))

\* start_new_games admitting max_concurrency matches whatever is ongoing.
start_new_games_full(a) == StartFrom(a, a.max_concurrency)

\* start_new_games counting every started match as ongoing.
start_new_games_nofree(a) == StartFrom(a, a.max_concurrency - a.first_unstarted)

\* AIArena::start_new_games
start_new_games(a) == StartFrom(a, a.max_concurrency - Ongoing(a))

\* score_for counting a draw as a loss for both sides.
score_for_nodraw(g, tile) ==
    IF g.winner = None THEN 0 - 1
    ELSE IF g.winner = tile THEN 2
    ELSE 0

\* Game::score_for, in half points (1.0 is 2); the unwrap of an unset
\* winner panics, which is -1 here.
score_for(g, tile) ==
    IF g.winner = None THEN 0 - 1
    ELSE IF g.winner = tile THEN 2
    ELSE IF g.winner = Empty THEN 1
    ELSE 0

RECURSIVE SumTo(_, _)
SumTo(f, n) == IF n = 0 THEN 0 ELSE f[n] + SumTo(f, n - 1)

\* finish_compare crediting the first competitor with X in every match.
finish_compare_noswap(a) ==
    [kind |-> "Compare", rows |-> <<>>, rated |-> <<>>,
     score1 |-> SumTo([k \in DOMAIN a.games |-> score_for(a.games[k], X)],
                      Len(a.games)),
     score2 |-> SumTo([k \in DOMAIN a.games |-> score_for(a.games[k], O)],
                      Len(a.games))]

\* AIArena::finish_compare: the two scores, in half points.
finish_compare(a) ==
    [kind |-> "Compare", rows |-> <<>>, rated |-> <<>>,
     score1 |-> SumTo([k \in DOMAIN a.games |->
                         IF (k - 1) % 2 = 0 THEN score_for(a.games[k], X)
                                            ELSE score_for(a.games[k], O)],
                      Len(a.games)),
     score2 |-> SumTo([k \in DOMAIN a.games |->
                         IF (k - 1) % 2 = 0 THEN score_for(a.games[k], O)
                                            ELSE score_for(a.games[k], X)],
                      Len(a.games))]

\* scores.entry(path).or_insert(0.0) += score
AddScore(scores, path, score) ==
    IF path \in DOMAIN scores THEN [scores EXCEPT ![path] = @ + score]
    ELSE scores @@ (path :> score)

\* finish_tournament: the loop over the games filling the map scores, in
\* half points; opponent_iter gives players[0] X and players[1] O.
RECURSIVE ScoreLoop(_, _, _)
ScoreLoop(gs, k, scores) ==
    IF k > Len(gs) THEN scores
    ELSE ScoreLoop(gs, k + 1,
            AddScore(AddScore(scores, gs[k].players[1].path, score_for(gs[k], X)),
                     gs[k].players[2].path, score_for(gs[k], O)))

\* finish_tournament: elo_games, the input of elo::from_single_tournament.
elo_games(a) ==
    [k \in DOMAIN a.games |->
        [players |-> <<a.games[k].players[1].path, a.games[k].players[2].path>>,
         score |-> score_for(a.games[k], X)]]

\* The orders a HashMap with the keys S may be iterated in.
HashOrders(S) ==
    {o \in [1..Cardinality(S) -> S] : \A i, j \in DOMAIN o : i # j => o[i] # o[j]}

\* sort_by putting the smaller score first.
RECURSIVE InsertRow_ascending(_, _)
InsertRow_ascending(sorted, row) ==
    IF sorted = <<>> THEN <<row>>
    ELSE IF Head(sorted).score <= row.score
    THEN <<Head(sorted)>> \o InsertRow_ascending(Tail(sorted), row)
    ELSE <<row>> \o sorted

\* The stable sort_by(|(_, s1), (_, s2)| s2.partial_cmp(s1)) one row at a
\* time: a row goes behind every row whose score is not smaller.
RECURSIVE InsertRow(_, _)
InsertRow(sorted, row) ==
    IF sorted = <<>> THEN <<row>>
    ELSE IF Head(sorted).score >= row.score
    THEN <<Head(sorted)>> \o InsertRow(Tail(sorted), row)
    ELSE <<row>> \o sorted

RECURSIVE sort_by(_, _)
sort_by(rows, n) ==
    IF n = 0 THEN <<>> ELSE InsertRow(sort_by(rows, n - 1), rows[n])

\* AIArena::finish_tournament: the rows it prints, best score first; order
\* is the order scores.into_iter() yields the map in.  The Elo column of a
\* row is elo::from_single_tournament(rated, 50, 16.0) at its path.
finish_tournament(a, order) ==
    [kind |-> "Tournament", score1 |-> 0, score2 |-> 0,
     rows |-> LET scores == ScoreLoop(a.games, 1, <<>>)
              IN  sort_by([i \in DOMAIN order |->
                             [path |-> order[i], score |-> scores[order[i]]]],
                          Len(order)),
     rated |-> elo_games(a)]

\* The reports finish_tournament may print.
TournamentReports(a) ==
    {finish_tournament(a, order) :
        order \in HashOrders({a.games[k].players[i].path :
                                k \in DOMAIN a.games, i \in 1..2})}

NoReport == [kind |-> "None", score1 |-> 0, score2 |-> 0, rows |-> <<>>, rated |-> <<>>]

\* The end of update_ai_arena looking at games[..first_unstarted] only.
Finish_started(a) ==
    IF \E i \in 1..a.first_unstarted : ~is_game_over(a.games[i]) THEN {NoReport}
    ELSE IF a.submode = "Compare" THEN {finish_compare(a)}
    ELSE TournamentReports(a)

\* AIArena::update_ai_arena, its end: the reports it may print when every
\* game is over, NoReport when it prints none.
Finish(a) ==
    IF \E i \in DOMAIN a.games : ~is_game_over(a.games[i]) THEN {NoReport}
    ELSE IF a.submode = "Compare" THEN {finish_compare(a)}
    ELSE TournamentReports(a)

\* AIArena::update_ai_arena after the loop over games[..first_unstarted]:
\* u[i] is update() of the i-th, a1 the arena before the loop.
Updated(a1, halt, inits, u) ==
    [a |-> [a1 EXCEPT !.games = [i \in DOMAIN a1.games |->
                                   IF i \in DOMAIN u THEN u[i].g ELSE @[i]]],
     halt |-> IF halt # None \/ \E i \in DOMAIN u : u[i].halt # None
              THEN "panic" ELSE None,
     inits |-> inits + Cardinality({i \in DOMAIN u : u[i].inits > 0}),
     polled |-> [i \in DOMAIN u |-> u[i].res]]

WithReport(r) ==
    [a |-> r.a, halt |-> r.halt, inits |-> r.inits, polled |-> r.polled,
     reports |-> IF r.halt # None THEN {NoReport} ELSE Finish(r.a)]

\* update_ai_arena moving the display on whether the displayed game is over
\* or not.
AfterStart_always(s, obs) ==
    IF s.halt # None \/ Len(s.a.games) = 0
    THEN [a |-> s.a, halt |-> "panic", inits |-> 0, polled |-> <<>>, reports |-> {NoReport}]
    ELSE WithReport(Updated(
            [s.a EXCEPT !.showed_game_idx = s.a.first_unstarted - 1],
            IF s.a.first_unstarted = 0 THEN "panic" ELSE None,
            s.inits,
            [i \in 1..s.a.first_unstarted |-> update(s.a.games[i], obs[i])]))

\* AIArena::update_ai_arena after start_new_games returned s: the displayed
\* game moves on when it is over, then every started game is updated.  The
\* index games[showed_game_idx] of an empty list and first_unstarted - 1
\* below zero panic.
AfterStart(s, obs) ==
    IF s.halt # None \/ Len(s.a.games) = 0
    THEN [a |-> s.a, halt |-> "panic", inits |-> 0, polled |-> <<>>, reports |-> {NoReport}]
    ELSE WithReport(Updated(
            [s.a EXCEPT !.showed_game_idx =
                IF is_game_over(s.a.games[@ + 1]) THEN s.a.first_unstarted - 1 ELSE @],
            IF is_game_over(s.a.games[s.a.showed_game_idx + 1]) /\ s.a.first_unstarted = 0
            THEN "panic" ELSE None,
            s.inits,
            [i \in 1..s.a.first_unstarted |-> update(s.a.games[i], obs[i])]))

\* AIArena::update_ai_arena.  obs[i] is what games[i]'s polled child shows.
\* The result carries the arena after the tick, the report when the tick
\* ended in finish_compare / finish_tournament, and polled: what the updates
\* returned.
update_ai_arena(a, obs) == AfterStart(start_new_games(a), obs)

\* What the agent of a polled arena match may show at one poll: still
\* running, in time or late, a non-zero exit, every legal move, and an
\* illegal move.
ArenaObservations(pos) ==
    {ObsRunning, ObsLate, ObsExit(FALSE, <<>>), ObsExit(TRUE, <<"h", "8">>)}
    \cup {ObsExit(TRUE, move_string(mv)) : mv \in valid_moves(pos)}

(***************************************************************************)
(* State.                                                                  *)
(*   game    : Visual.game                                                 *)
(*   phase   : "new" until Game::initialize has been called, then "run"    *)
(*   host    : "running", or how the host program ended: "panic",          *)
(*             "exit1" (a spawn error), "exit0" (the arena's report)       *)
(*   last    : the last operation and, for an update, what the polled      *)
(*             player returned                                             *)
(*   arena   : the AIArena                                                 *)
(*   report  : what finish_compare / finish_tournament printed             *)
(***************************************************************************)
VARIABLES game, phase, host, last, arena, report

vars == <<game, phase, host, last, arena, report>>

visual_vars == <<game, phase>>

arena_vars == <<arena, report>>

Op(op, res) == [op |-> op, res |-> res]

Init ==
    /\ \E pl \in PlayerPairs : game = GameNew(0, pl)
    /\ phase = "new"
    /\ host = "running"
    /\ last = Op("new", "")
    /\ arena = ArenaNew(<<>>, 0, "Compare")
    /\ report = NoReport

\* An operation on Visual.game ends: it returned, it panicked, or a spawn
\* it made failed and the host exited with status 1.
Commit(r, spawn_ok) ==
    /\ spawn_ok \/ (r.halt = None /\ r.inits > 0)
    /\ IF r.halt # None THEN host' = r.halt /\ game' = game
       ELSE IF ~spawn_ok THEN host' = "exit1" /\ game' = game
       ELSE host' = host /\ game' = r.g

VInitialize ==
    /\ host = "running" /\ phase = "new"
    /\ \E r \in {initialize(game)} : \E spawn_ok \in BOOLEAN : Commit(r, spawn_ok)
    /\ phase' = "run"
    /\ last' = Op("initialize", "")
    /\ UNCHANGED arena_vars

VUpdate ==
    /\ host = "running" /\ phase = "run"
    /\ \E obs \in Observations : \E r \in {update(game, obs)} :
          /\ \E spawn_ok \in BOOLEAN : Commit(r, spawn_ok)
          /\ last' = Op("update", r.res)
    /\ UNCHANGED <<phase, arena_vars>>

VClick ==
    /\ host = "running" /\ phase = "run"
    /\ \E mv \in Cells : \E r \in {HandleClick(game, mv)} :
          \E spawn_ok \in BOOLEAN : Commit(r, spawn_ok)
    /\ last' = Op("click", "")
    /\ UNCHANGED <<phase, arena_vars>>

VUndo ==
    /\ host = "running" /\ phase = "run"
    /\ \E r \in {VisualUndo(game)} : \E spawn_ok \in BOOLEAN : Commit(r, spawn_ok)
    /\ last' = Op("undo", "")
    /\ UNCHANGED <<phase, arena_vars>>

Next == VInitialize \/ VUpdate \/ VClick \/ VUndo

Spec == Init /\ [][Next]_vars

\* Visual.game with its owner also calling Game::play directly, which is
\* public: any legal move, at any time after initialize.
ApiPlay ==
    /\ host = "running" /\ phase = "run"
    /\ \E mv \in valid_moves(game.pos) : game' = play(game, mv)
    /\ last' = Op("play", "")
    /\ UNCHANGED <<phase, host, arena_vars>>

ApiNext == Next \/ ApiPlay

ApiSpec == Init /\ [][ApiNext]_vars

(***************************************************************************)
(* Properties of Game::update and Game::play (Spec, ApiSpec).              *)
(***************************************************************************)
\* The index into game.players of the side on turn.
OnTurn == TileIdx(game.pos.next_player) + 1

OutOfRange == ObsExit(TRUE, <<"z", "9">>)

(***************************************************************************)
(* A match built by Game::from_pos on any position and driven through the  *)
(* public operations of Game: initialize, update, the front-end's click    *)
(* and undo, Game::undo(n) and the manual undo sequence.                   *)
(***************************************************************************)
\* Every position Pos::play leads to from the opening.
RECURSIVE Reach(_)
Reach(pos) ==
    {pos} \cup (IF pos.next_player = Empty THEN {}
                ELSE UNION {Reach(PosPlay(pos, mv)) : mv \in valid_moves(pos)})

\* X to move, its one move leaving three disks each and no move to anyone.
DrawStart ==
    [board |-> [c \in Cells |->
                  IF c = <<0, 0>> THEN X
                  ELSE IF c = <<1, 0>> \/ c[2] = BoardH - 1 THEN O
                  ELSE Empty],
     next_player |-> X]

\* The positions at which a game from the opening has ended.
EndPositions == {p \in Reach(PosNew) : p.next_player = Empty}

\* The positions a match is built on: the opening, a position a move away
\* from a draw, and the finished positions, as Pos::play leaves them and
\* with a side still named as next.
GameStarts ==
    {PosNew, DrawStart} \cup EndPositions
    \cup {[p EXCEPT !.next_player = X] : p \in EndPositions}

GameInit ==
    /\ \E pl \in PlayerPairs : \E start \in GameStarts : game = from_pos(0, pl, start)
    /\ phase = "new"
    /\ host = "running"
    /\ last = Op("new", "")
    /\ arena = ArenaNew(<<>>, 0, "Compare")
    /\ report = NoReport

NatStr(n) == <<"0", "1", "2", "3", "4", "5", "6", "7", "8", "9">>[n + 1]

\* Game::undo(n), for every n up to the history length.
ApiUndo ==
    /\ host = "running" /\ phase = "run"
    /\ \E n \in 0..Len(game.history) : \E r \in {undo(game, n)} :
          /\ \E spawn_ok \in BOOLEAN : Commit(r, spawn_ok)
          /\ last' = Op("undo_n", NatStr(n))
    /\ UNCHANGED <<phase, arena_vars>>

\* The manual sequence with k calls of manual_undo.
ApiManualUndo ==
    /\ host = "running" /\ phase = "run"
    /\ \E k \in 0..Len(game.history) : \E r \in {ManualSeq(game, k)} :
          /\ \E spawn_ok \in BOOLEAN : Commit(r, spawn_ok)
          /\ last' = Op("manual_undo", NatStr(k))
    /\ UNCHANGED <<phase, arena_vars>>

GameNext == Next \/ ApiUndo \/ ApiManualUndo

GameSpec == GameInit /\ [][GameNext]_vars

(***************************************************************************)
(* Properties of the history and of undo (GameSpec).                       *)
(***************************************************************************)
HistoryOk(g) ==
    /\ Len(g.history) >= 1
    /\ g.history[1][2] = <<>>
    /\ \A i \in 2..Len(g.history) :
          /\ Len(g.history[i][2]) = 1
          /\ g.history[i][1] = PosPlay(g.history[i - 1][1], g.history[i][2][1])
    /\ g.pos = g.history[Len(g.history)][1]

\* One operation's effect on the history: a played move appends one entry,
\* an undo of n moves removes the last n, everything else leaves it alone.
HistoryStep ==
    IF host' # "running" THEN game' = game
    ELSE IF last'.op = "update" /\ last'.res = "Ok"
         THEN Len(game'.history) = Len(game.history) + 1
                 /\ SubSeq(game'.history, 1, Len(game.history)) = game.history
    ELSE IF last'.op = "click"
         THEN \/ game'.history = game.history
              \/ \E mv \in valid_moves(game.pos) :
                    game'.history = Append(game.history, <<PosPlay(game.pos, mv), <<mv>>>>)
    ELSE IF last'.op \in {"undo_n", "manual_undo"}
         THEN \E n \in 0..(Len(game.history) - 1) :
                 /\ last'.res = NatStr(n)
                 /\ game'.history = SubSeq(game.history, 1, Len(game.history) - n)
    ELSE IF last'.op = "undo"
         THEN \E n \in 0..(Len(game.history) - 1) :
                 game'.history = SubSeq(game.history, 1, Len(game.history) - n)
    ELSE game'.history = game.history

\* C11: the history is never empty, its first entry carries no move, every
\* later entry's position is its move played on the entry before, the
\* current position is the last entry's, and the length follows the moves
\* played and undone: plus one for a move, minus n for an undo of n.
C11_HistoryInvariant == [](HistoryOk(game)) /\ [][HistoryStep]_vars

C11_Witness ==
    /\ host = "running"
    /\ last = Op("undo_n", "2")
    /\ Len(game.history) >= 2
    /\ game.history[2][2] # <<>>

\* The moves of the last n history entries, oldest first.
LastMoves(g, n) == [i \in 1..n |-> g.history[Len(g.history) - n + i][2][1]]

RoundTrip(g, n, r) ==
    r.halt = None =>
       /\ Len(r.g.history) = Len(g.history) - n
       /\ \A g2 \in {Replay(r.g, LastMoves(g, n))} :
             g2.history = g.history /\ g2.pos = g.pos

C13_UndoPastStartPanics ==
    /\ \A n \in Len(game.history)..(Len(game.history) + 2) :
          /\ undo(game, n).halt = "panic"
          /\ ManualSeq(game, n).halt = "panic"
    /\ Len(game.history) = 1 => manual_undo(game).halt = "panic"
    /\ Len(game.history) > 1 =>
          /\ manual_undo(game).halt = None
          /\ manual_undo(game).g.history # <<>>
    /\ game.history # <<>>

C13_Witness ==
    /\ host = "panic"
    /\ last.op = "undo_n"
    /\ last.res = NatStr(Len(game.history))
    /\ Len(game.history) >= 2
    /\ game.winner = None
    /\ manual_interrupt(game).halt = None

\* Two operations end alike: both panic, or both return the same match
\* (position, history, winner, each player's run handle) having called
\* init as often.
SameOutcome(a, b) ==
    /\ a.halt = b.halt
    /\ a.halt = None =>
          /\ a.g.pos = b.g.pos
          /\ a.g.history = b.g.history
          /\ a.g.winner = b.g.winner
          /\ a.g.players = b.g.players
          /\ a.inits = b.inits

C15_ZeroSum ==
    /\ game.winner # None =>
          /\ score_for(game, X) + score_for(game, O) = 2
          /\ \A side \in {X, O} :
                score_for(game, side) =
                   IF game.winner = side THEN 2
                   ELSE IF game.winner = Opponent(side) THEN 0
                   ELSE 1
    /\ game.winner = None => \A side \in {X, O} : score_for(game, side) = 0 - 1

C15_Witness ==
    /\ host = "running"
    /\ last = Op("update", "Ok")
    /\ game.winner = Empty
    /\ score_for(game, X) = 1 /\ score_for(game, O) = 1

\* C16: after Game::initialize on a match whose starting position is at its
\* end, the host still runs, winner is the position's winner and no player
\* holds a run handle (no agent was spawned).
C16_InitializeOnOverStart ==
    (last.op = "initialize" /\ PosIsGameOver(game.history[1][1])) =>
       /\ host = "running"
       /\ game.winner = PosWinner(game.pos)
       /\ \A i \in 1..2 : game.players[i].ai_run_handle = NoHandle

\* C6: when the polled player's update returns Fail, the winner becomes the
\* opponent of the side on turn, X or O, and position and history stay as
\* they were.  After one move of the first mover, an out-of-range token of
\* the second mover gives the match to the first mover, the history
\* keeping its two entries.
C6_FailForfeits ==
    /\ \A obs \in Observations : \A r \in {update(game, obs)} :
          r.res = "Fail" =>
             /\ r.halt = None /\ r.inits = 0
             /\ r.g.winner = Opponent(game.pos.next_player)
             /\ r.g.winner \in {X, O}
             /\ r.g.pos = game.pos
             /\ r.g.history = game.history
    /\ (/\ phase = "run" /\ game.winner = None /\ Len(game.history) = 2
        /\ game.players[OnTurn].ai_run_handle.child = "alive")
          => \A r \in {update(game, OutOfRange)} :
                /\ r.res = "Fail"
                /\ OnTurn = 2 /\ r.g.winner = X
                /\ Len(r.g.history) = 2
    /\ last = Op("update", "Fail") => game.winner = Opponent(game.pos.next_player)

C6_Witness ==
    /\ last = Op("update", "Fail")
    /\ Len(game.history) = 2
    /\ game.winner = X
    /\ game.players[2].ai_run_handle = NoHandle

\* C7: when the polled player's update returns Ok with a move, exactly one
\* entry (the new position, the move) is appended to the history and the
\* position becomes the new position; if that position is at its end the
\* winner is its winner and no player is initialized, otherwise the winner
\* stays unset and the player now on turn is initialized.
C7_OkPlays ==
    \A obs \in Observations : \A r \in {update(game, obs)} :
       r.res = "Ok" =>
          /\ r.halt = None
          /\ Len(r.g.history) = Len(game.history) + 1
          /\ \E mv \in valid_moves(game.pos) :
                /\ r.g.history = Append(game.history, <<PosPlay(game.pos, mv), <<mv>>>>)
                /\ r.g.pos = PosPlay(game.pos, mv)
          /\ IF PosIsGameOver(r.g.pos)
             THEN /\ r.g.winner = PosWinner(r.g.pos)
                  /\ r.inits = 0
                  /\ \A i \in 1..2 : r.g.players[i].ai_run_handle.child # "alive"
             ELSE /\ r.g.winner = None
                  /\ \A n \in {TileIdx(r.g.pos.next_player) + 1} :
                        /\ r.g.players[n].kind = "AI"
                              => r.inits = 1 /\ r.g.players[n].ai_run_handle = NewHandle
                        /\ r.g.players[n].kind = "Human"
                              => r.inits = 0 /\ r.g.players[n] = game.players[n]

C7_Witness ==
    /\ last = Op("update", "Ok")
    /\ PosIsGameOver(game.pos)
    /\ game.winner = PosWinner(game.pos)
    /\ Len(game.history) > 2

\* C8: when the polled player's update returns Wait, which a human player's
\* always does, the match is left exactly as it was: position, history,
\* winner and both players.
C8_WaitChangesNothing ==
    \A obs \in Observations : \A r \in {update(game, obs)} :
       /\ (game.winner = None /\ game.players[OnTurn].kind = "Human") => r.res = "Wait"
       /\ r.res = "Wait" => r.g = game /\ r.halt = None /\ r.inits = 0

C8_Witness ==
    /\ last = Op("update", "Wait")
    /\ game.winner = None
    /\ game.players[OnTurn].kind = "AI"
    /\ game.players[3 - OnTurn].kind = "Human"
    /\ Len(game.history) > 1

(***************************************************************************)
(* Properties of a poll of the on-turn agent (Spec).                       *)
(***************************************************************************)
\* The run handles of the match that hold a child try_wait has not seen exit.
AliveHandles ==
    {h \in {game.players[i].ai_run_handle : i \in 1..2} : h.child = "alive"}

\* The AI on turn waits for its child.
AgentOut ==
    /\ game.winner = None
    /\ game.pos.next_player # Empty
    /\ game.players[OnTurn].ai_run_handle.child = "alive"

\* C17: an agent that is still alive when it is polled past its time limit
\* gets TimeOut from that poll, which kills it: the child is not running
\* afterwards, no later poll returns Running, and the match is forfeited.
\* An agent that has exited by the time it is polled is classified by its
\* exit and never as TimeOut, however late.
C17_TimedOutWhenPolledAlive ==
    /\ \A h \in AliveHandles : \A e \in (TimeLimit + 1)..(TimeLimit + 2) :
          \A c \in {check(h, ObsAlive(e))} :
             /\ c.res = TimeOut
             /\ c.h.child = "killed"
             /\ \A obs \in Observations : check(c.h, obs).res = RuntimeError
    /\ \A h \in AliveHandles : \A obs \in Observations :
          obs.kind = "exit" => check(h, obs).res # TimeOut
    /\ AgentOut => \A r \in {update(game, ObsLate)} :
          /\ r.res = "Fail" /\ r.halt = None
          /\ r.g.winner = Opponent(game.pos.next_player)
          /\ r.g.players[OnTurn].ai_run_handle.child = "killed"

C17_Witness ==
    /\ host = "running"
    /\ last = Op("update", "Fail")
    /\ game.pos.next_player # Empty
    /\ game.winner = Opponent(game.pos.next_player)
    /\ game.players[OnTurn].ai_run_handle.child = "killed"

\* C17 as stated: every poll of an agent past its time limit returns
\* TimeOut, the agent not running afterwards.
C17_TimedOutWheneverLate ==
    \A h \in AliveHandles : \A obs \in Observations :
       obs.elapsed > TimeLimit =>
          \A c \in {check(h, obs)} : c.res = TimeOut /\ c.h.child # "alive"

\* C18: for a child that is alive, check returns Running exactly when the
\* elapsed time is at most the time limit and TimeOut exactly when it is
\* greater; TimeOut kills the child, Running leaves the handle as it was.
C18_RunningOrTimedOut ==
    \A h \in AliveHandles : \A e \in 0..(TimeLimit + 2) :
       \A c \in {check(h, ObsAlive(e))} :
          /\ c.res \in {Running, TimeOut}
          /\ c.res = Running <=> e <= TimeLimit
          /\ c.res = TimeOut <=> e > TimeLimit
          /\ c.res = TimeOut => c.h = kill(h) /\ c.h.child = "killed"
          /\ c.res = Running => c.h = h

C18_Witness ==
    /\ host = "running"
    /\ last = Op("update", "Wait")
    /\ AgentOut
    /\ \A i \in 1..2 : game.players[i].kind = "AI"
    /\ check(game.players[OnTurn].ai_run_handle, ObsAlive(TimeLimit)).res = Running

\* C19: a poll of an agent never ends the host: after an update the host is
\* running, or has exited on the spawn error of the next player's init; and
\* every observation of the on-turn agent other than a child still within
\* its time or a legal move makes update return Fail.
C19_FailuresForfeit ==
    /\ last.op = "update" => host \in {"running", "exit1"}
    /\ AgentOut => \A obs \in Observations : \A r \in {update(game, obs)} :
          /\ r.halt = None
          /\ r.res \in {"Fail", "Wait", "Ok"}
          /\ r.res = "Wait" => obs.kind = "alive" /\ obs.elapsed <= TimeLimit
          /\ r.res = "Ok" => obs.kind = "exit" /\ obs.success

\* C20: a child that exits with a non-zero status (stderr being text) is
\* classified RuntimeError whatever it wrote to stdout, a legal move token
\* included, and the update that polled it forfeits the match.
C20_NonZeroExitIsRuntimeError ==
    /\ \A h \in AliveHandles : \A obs \in Observations :
          (obs.kind = "exit" /\ ~obs.success /\ IsUtf8(obs.stderr)) =>
             check(h, obs).res = RuntimeError
    /\ AgentOut => \A mv \in valid_moves(game.pos) :
          \A r \in {update(game, ObsExit(FALSE, move_string(mv)))} :
             /\ r.res = "Fail" /\ r.halt = None
             /\ r.g.winner = Opponent(game.pos.next_player)
             /\ r.g.history = game.history /\ r.g.pos = game.pos

C20_Witness ==
    /\ host = "running"
    /\ last = Op("update", "Fail")
    /\ game.pos.next_player # Empty
    /\ game.winner = Opponent(game.pos.next_player)
    /\ game.players[OnTurn].ai_run_handle.child = "exited_err"

\* C23: an agent that exits with status 0 and a well-formed token of a move
\* that is not legal in the position makes update return Fail, never Ok:
\* the match is forfeited with position and history as they were, and every
\* move in the history was legal where it was played.
C23_IllegalMoveForfeits ==
    /\ AgentOut => \A mv \in (0..7) \X (0..7) :
          mv \notin valid_moves(game.pos) =>
             \A r \in {update(game, ObsExit(TRUE, move_string(mv)))} :
                /\ r.res = "Fail" /\ r.halt = None
                /\ r.g.winner = Opponent(game.pos.next_player)
                /\ r.g.history = game.history /\ r.g.pos = game.pos
    /\ \A i \in 2..Len(game.history) :
          game.history[i][2][1] \in valid_moves(game.history[i - 1][1])

C23_Witness ==
    /\ host = "running"
    /\ last = Op("update", "Fail")
    /\ game.pos.next_player # Empty
    /\ game.winner = Opponent(game.pos.next_player)
    /\ game.players[OnTurn].kind = "AI"
    /\ game.players[OnTurn].ai_run_handle = NoHandle
    /\ Len(game.history) > 2

\* C25: an agent player holds a run handle exactly while its request is
\* outstanding: it is on turn in a started match that is not over.
C25_HandleOnlyWhileOutstanding ==
    host = "running" => \A i \in 1..2 :
       game.players[i].ai_run_handle # NoHandle <=>
          /\ phase = "run" /\ game.winner = None
          /\ game.players[i].kind = "AI"
          /\ game.pos.next_player # Empty /\ OnTurn = i

\* A step that is a direct call of Game::play.
C10_PlayStep == last'.op = "play" /\ game' # game

\* C10: a call of Game::play on a match whose winner is set appends nothing
\* to the history and leaves the position as it is.
C10_NoPlayOnceOver ==
    [][(C10_PlayStep /\ game.winner # None)
          => (game'.history = game.history /\ game'.pos = game.pos)]_vars
(***************************************************************************)
(* The arena: the host calls update_ai_arena once per frame.               *)
(***************************************************************************)
ArenaInit ==
    /\ game = GameNew(0, <<HumanPlayer, HumanPlayer>>)
    /\ phase = "arena"
    /\ host = "running"
    /\ last = Op("new", "")
    /\ \E start \in ArenaStarts,
          mc \in 0..MaxConcurrency,
          sm \in {"Compare", "Tournament"} :
          arena = ArenaNew([k \in 1..NumGames |-> CompareGame(k - 1, start)], mc, sm)
    /\ report = NoReport

\* The observations of one tick: one for each game the tick polls (those
\* already started and not over, and those it starts), ObsRunning for the
\* games it does not poll.
RECURSIVE ObsUpTo(_, _)
ObsUpTo(a1, n) ==
    IF n = 0 THEN {<<>>}
    ELSE {Append(o, x) :
            o \in ObsUpTo(a1, n - 1),
            x \in IF n <= a1.first_unstarted /\ ~is_game_over(a1.games[n])
                  THEN ArenaObservations(a1.games[n].pos) ELSE {ObsRunning}}

ObsChoices(a) == ObsUpTo(start_new_games(a).a, Len(a.games))

TickWith(spawns) ==
    /\ host = "running" /\ phase = "arena"
    /\ \E obs \in ObsChoices(arena) : \E r \in {update_ai_arena(arena, obs)} :
          \E spawn_ok \in spawns :
             /\ spawn_ok \/ (r.halt = None /\ r.inits > 0)
             /\ IF r.halt # None
                THEN host' = r.halt /\ UNCHANGED <<arena, report>>
                ELSE IF ~spawn_ok
                THEN host' = "exit1" /\ UNCHANGED <<arena, report>>
                ELSE /\ arena' = r.a
                     /\ report' \in r.reports
                     /\ host' = IF r.reports # {NoReport} THEN "exit0" ELSE host
    /\ UNCHANGED <<visual_vars, last>>

\* One call of update_ai_arena; a spawn it makes may fail.
Tick == TickWith(BOOLEAN)

ArenaNext == Tick

ArenaSpec == ArenaInit /\ [][ArenaNext]_vars

\* The arena while every agent can be spawned and the frames keep coming.
TickSpawned == TickWith({TRUE})

ArenaLiveNext == TickSpawned

\* ENABLED <<TickSpawned>>_vars: a tick changes something exactly when the
\* host runs and the tick panics, admits a match, moves the display on,
\* reports, or polls an agent (which may have answered).
TickCanAct ==
    /\ host = "running" /\ phase = "arena"
    /\ \E r \in {update_ai_arena(arena, [k \in DOMAIN arena.games |-> ObsRunning])} :
          \/ r.halt # None
          \/ r.a # arena
          \/ r.reports # {NoReport}
          \/ \E k \in DOMAIN r.polled : r.polled[k] # "Skip"

\* Weak fairness of the tick, WF_vars(TickSpawned), with TickCanAct for its
\* ENABLED and, the tick being the only action, any step that changes the
\* state for its step: a polled agent is eventually seen to have exited or
\* to have outlived its deadline.
ArenaLiveSpec ==
    /\ ArenaInit /\ [][ArenaLiveNext]_vars
    /\ ([]<>(~TickCanAct) \/ []<><<TRUE>>_vars)
(***************************************************************************)
(* Properties of the arena (ArenaSpec).                                    *)
(***************************************************************************)
Games == arena.games

Started(k) == k <= arena.first_unstarted

\* A match nobody has touched since from_pos.
Untouched(g) ==
    /\ g.winner = None
    /\ Len(g.history) = 1
    /\ \A i \in 1..2 : g.players[i].ai_run_handle = NoHandle

\* A match initialize() has been called on: it is over, or its on-turn agent
\* has been given a request.
Initialized(g) ==
    \/ is_game_over(g)
    \/ g.players[TileIdx(g.pos.next_player) + 1].ai_run_handle # NoHandle

\* C1: the matches that are initialized and not over never outnumber
\* max_concurrency, so the subtraction max_concurrency - ongoing in
\* start_new_games never goes below zero.
C1_AdmissionInvariant ==
    /\ Ongoing(arena) <= arena.max_concurrency
    /\ start_new_games(arena).halt = None

C1_Witness ==
    /\ arena.max_concurrency >= 1
    /\ Ongoing(arena) = arena.max_concurrency
    /\ arena.first_unstarted < Len(Games)
    /\ \E k \in DOMAIN Games : Started(k) /\ Len(Games[k].history) > 1

\* The matches below first_unstarted are initialized, the others untouched.
C2_Partition ==
    /\ arena.first_unstarted \in 0..Len(Games)
    /\ \A k \in DOMAIN Games :
          IF Started(k) THEN Initialized(Games[k]) /\ ~Untouched(Games[k])
          ELSE Untouched(Games[k])

\* first_unstarted does not decrease, and the untouched matches a step
\* touches are those it moves first_unstarted over.
C2_InOrder ==
    /\ arena'.first_unstarted >= arena.first_unstarted
    /\ \A k \in DOMAIN Games :
          (Untouched(Games[k]) /\ ~Untouched(arena'.games[k]))
             => k \in (arena.first_unstarted + 1)..arena'.first_unstarted

\* C2: first_unstarted partitions the match list into the initialized
\* matches (index below it) and the untouched ones (index at or above it);
\* it never exceeds the number of matches, never decreases, and a step
\* touches untouched matches only in index order from first_unstarted on.
C2_CursorPartitions == []C2_Partition /\ [][C2_InOrder]_vars

C2_Witness ==
    /\ arena.first_unstarted \in 1..(Len(Games) - 1)
    /\ Len(Games[arena.first_unstarted].history) > 1
    /\ Untouched(Games[arena.first_unstarted + 1])

AllOver == \A k \in DOMAIN Games : is_game_over(Games[k])

\* C3: the final report has been produced exactly when every match of the
\* list is over: never while a match is queued or ongoing, and in the very
\* tick that ends the last match.
C3_ReportIffAllOver ==
    /\ (report # NoReport) <=> AllOver
    /\ (report # NoReport) <=> (host = "exit0")
    /\ report # NoReport => report.kind = arena.submode /\ arena.first_unstarted = Len(Games)

C3_Witness ==
    /\ report.kind = "Tournament"
    /\ AllOver
    /\ \E k \in DOMAIN Games : Len(Games[k].history) = 3


\* C4: with a non-empty match list, max_concurrency at least 1, frames that
\* keep coming and agents that exit or outlive their deadline, every match
\* is eventually initialized and over, and the final report is produced.
C4_AllMatchesFinish ==
    (arena.max_concurrency >= 1 /\ Len(Games) >= 1)
       ~> (arena.first_unstarted = Len(Games) /\ AllOver /\ report # NoReport)

C4_Witness ==
    /\ arena.max_concurrency = 1
    /\ Len(Games) > 1
    /\ AllOver
    /\ report.kind = "Compare"

\* What every polled agent shows when none has answered.
AllRunning == [k \in DOMAIN Games |-> ObsRunning]

\* The matches a tick's loop over games[..first_unstarted] has to poll.
ToPoll(a) == {j \in 1..a.first_unstarted : ~is_game_over(a.games[j])}

\* C5: a tick in which an agent forfeits does not abort: the forfeiting
\* match gets its winner, every other ongoing match is updated in that tick
\* and in the next, and the next tick initializes the next queued match.
C5_ForfeitKeepsBatch ==
    host = "running" =>
      \A obs \in ObsChoices(arena) :
        \A r \in {update_ai_arena(arena, obs)} :
          \A k \in DOMAIN r.polled : r.polled[k] = "Fail" =>
            /\ r.halt = None
            /\ is_game_over(r.a.games[k])
            /\ r.a.games[k].history = Games[k].history
            /\ \A j \in ToPoll(start_new_games(arena).a) : r.polled[j] # "Skip"
            /\ r.reports = {NoReport} =>
                 \A s2 \in {start_new_games(r.a)} :
                   \A r2 \in {update_ai_arena(r.a, AllRunning)} :
                     /\ s2.halt = None /\ r2.halt = None
                     /\ r.a.first_unstarted < Len(Games)
                           => s2.a.first_unstarted > r.a.first_unstarted
                     /\ \A j \in ToPoll(s2.a) : r2.polled[j] = "Wait"

\* A match ended by a forfeit: it has a winner though its position is not
\* at its end.
Forfeited(g) == is_game_over(g) /\ ~PosIsGameOver(g.pos)

C5_Witness ==
    /\ host = "running"
    /\ arena.max_concurrency = 1
    /\ Forfeited(Games[1])
    /\ arena.first_unstarted = 2
    /\ Len(Games[2].history) > 1

\* update on a match that is over returns at once, whatever its agents show.
C9_OverUpdateIsNoOp ==
    \A k \in DOMAIN Games : is_game_over(Games[k]) =>
       \A obs \in Observations :
          update(Games[k], obs) = WithRes(Ret(Games[k]), "Skip")

\* A step leaves the matches that are over as they are.
C9_OverStays ==
    \A k \in DOMAIN Games : is_game_over(Games[k]) => arena'.games[k] = Games[k]

\* C9: the winner of a match is set once: no tick changes the winner, or
\* anything else, of a match that is over, and update on it is a no-op
\* that polls no player and leaves position and history unchanged.
C9_WinnerSetOnce == []C9_OverUpdateIsNoOp /\ [][C9_OverStays]_vars

C9_Witness ==
    /\ host = "running"
    /\ arena.max_concurrency = 1
    /\ is_game_over(Games[1])
    /\ Games[1].pos.next_player # Empty
    /\ arena.first_unstarted = 2
    /\ Games[2].winner = None

(***************************************************************************)
(* One poll of an agent that has exited with status 0: the match is a new  *)
(* one with the first mover's agent started, `last` holds what the agent   *)
(* wrote and, after the poll, what check() made of it.                     *)
(***************************************************************************)
\* The longest output taken character by character.
MaxOut == 4

OutChars == {"a", "i", "1", "9", "0", " ", "\n"}

\* Every move token a..h, 1..8.
Tokens == {<<Letters[x], Digits[y]>> : x \in 1..8, y \in 1..8}

PollStdouts ==
    UNION {[1..n -> OutChars] : n \in 0..MaxOut} \cup Tokens \cup (Stdouts \ {<<>>})

PollInit ==
    /\ game = initialize(GameNew(0, <<AIPlayer("ai1"), AIPlayer("ai2")>>)).g
    /\ phase = "run"
    /\ host = "running"
    /\ \E s \in PollStdouts : last = [op |-> "wrote", res |-> s, out |-> Running]
    /\ arena = ArenaNew(<<>>, 0, "Compare")
    /\ report = NoReport

\* Game::update polling the agent, which has exited with what it wrote.
PollUpdate ==
    /\ host = "running" /\ last.op = "wrote"
    /\ \E obs \in {ObsExit(TRUE, last.res)} : \E r \in {update(game, obs)} :
          /\ Commit(r, TRUE)
          /\ last' = [op |-> "polled", res |-> last.res,
                      out |-> check(game.players[1].ai_run_handle, obs).res]
    /\ UNCHANGED <<phase, arena_vars>>

PollNext == PollUpdate

PollSpec == PollInit /\ [][PollNext]_vars

\* A stdout that is not an answer: after trimming, not one or two lines, or
\* a first line that is not a letter a..h followed by a digit 1..8.
Malformed(s) ==
    \A lines \in {TrimEach(SplitLines(Trim(s), <<>>))} :
       \/ Len(lines) < 1 \/ Len(lines) > 2
       \/ Len(lines[1]) # 2
       \/ lines[1][1] \notin {"a", "b", "c", "d", "e", "f", "g", "h"}
       \/ lines[1][2] \notin {"1", "2", "3", "4", "5", "6", "7", "8"}

\* C21: a malformed stdout of an agent that exited with status 0 is
\* classified InvalidOuput, never Success, and forfeits the match; a stdout
\* that is not malformed is classified Success.
C21_MalformedIsInvalid ==
    last.op = "polled" =>
       /\ Malformed(last.res) =>
             /\ last.out = InvalidOuput
             /\ game.winner = O /\ Len(game.history) = 1
       /\ ~Malformed(last.res) => last.out.tag = "Success"

C21_Witness ==
    /\ last.op = "polled"
    /\ last.res = <<"a", "1", "\n", "x", "\n", "y">>
    /\ last.out = InvalidOuput
    /\ game.winner = O

\* C22: decoding the token of the square (column, row), column and row in
\* 0..7, gives that column and row back.
C22_TokenRoundTrip ==
    /\ \A x \in 0..7 : \A y \in 0..7 :
          /\ move_string(<<x, y>>) \in Tokens
          /\ DecodeMove(<<move_string(<<x, y>>)>>) = Success(Vec2(x, y), <<>>)
    /\ Cardinality(Tokens) = 64
    /\ (last.op = "polled" /\ last.res \in Tokens) =>
          /\ last.out.tag = "Success"
          /\ move_string(last.out.mv) = last.res

C22_Witness ==
    /\ last.op = "polled"
    /\ last.res = <<"h", "8">>
    /\ last.out = Success(Vec2(7, 7), <<>>)

(***************************************************************************)
(* Visual.game with its owner also calling Player::interrupt on a player   *)
(* of the match directly: the trait method is public.                      *)
(***************************************************************************)
ApiInterrupt ==
    /\ host = "running"
    /\ \E i \in 1..2 : \E r \in {PlayerInterrupt(game.players[i])} :
          IF r.halt # None
          THEN host' = r.halt /\ game' = game
          ELSE host' = host /\ game' = [game EXCEPT !.players[i] = r.p]
    /\ last' = Op("interrupt", "")
    /\ UNCHANGED <<phase, arena_vars>>

PlayerApiNext == Next \/ ApiInterrupt

PlayerApiSpec == Init /\ [][PlayerApiNext]_vars

\* C24: a call of interrupt returns, whatever the player holds: the host
\* runs after it, no child is alive after it, and a player without a live
\* child is left as it was.
C24_InterruptTotal ==
    /\ last.op = "interrupt" => host = "running"
    /\ \A i \in 1..2 : \A r \in {PlayerInterrupt(game.players[i])} :
          r.halt = None =>
             /\ r.p.ai_run_handle.child # "alive"
             /\ game.players[i].ai_run_handle.child # "alive" => r.p = game.players[i]
             /\ PlayerInterrupt(r.p) = r


(***************************************************************************)
(* The last tick of a batch: an arena whose matches have all been started, *)
(* every match but the last one over, the last one waiting for its agent.  *)
(***************************************************************************)
\* What an agent that answers at once shows: a non-zero exit, or the first
\* legal move (the one of the smallest column, then row).
FirstMoves(pos) ==
    {mv \in valid_moves(pos) :
        \A m \in valid_moves(pos) : mv[1] < m[1] \/ (mv[1] = m[1] /\ mv[2] <= m[2])}

BatchObs(pos) ==
    {ObsExit(FALSE, <<>>)}
    \cup {ObsExit(TRUE, move_string(mv)) : mv \in FirstMoves(pos)}

\* One more update_ai_arena tick for each of the matches gs.
PollAll(gs) == UNION {{update(g, o).g : o \in BatchObs(g.pos)} : g \in gs}

\* The ways the started match g is over after one or two ticks.
Endings(g) ==
    {h \in PollAll({g}) \cup PollAll(PollAll({g})) : is_game_over(h)}

\* The arena of the matches gs when the ticks have left the match of each
\* index its ending over[k] and the last match is still polled.
LastTick(gs, over, submode_) ==
    [ArenaNew([k \in DOMAIN gs |-> IF k < Len(gs) THEN over[k] ELSE gs[k]],
              Len(gs), submode_)
       EXCEPT !.first_unstarted = Len(gs), !.showed_game_idx = Len(gs) - 1]

\* The arenas of that kind on the started matches gs.
RECURSIVE EndingsUpTo(_, _)
EndingsUpTo(gs, n) ==
    IF n = 0 THEN {<<>>}
    ELSE {Append(o, h) : o \in EndingsUpTo(gs, n - 1), h \in Endings(gs[n])}

LastTicks(gs, submode_) ==
    {LastTick(gs, over, submode_) : over \in EndingsUpTo(gs, Len(gs) - 1)}

\* start_new_games with room for every match: initialize() of each.
StartAll(gs) == [k \in DOMAIN gs |-> initialize(gs[k]).g]

\* handle_compare_mode: the pairs of a batch, pair i on starts[i + 1].
BatchPairs == 2
BatchStarts == ArenaStarts \cup {DrawStart}

CompareGames(starts) ==
    [k \in 1..(2 * Len(starts)) |->
        CompareGame(k - 1, starts[((k - 1) \div 2) + 1])]

CompareBatches ==
    UNION {LastTicks(StartAll(CompareGames(starts)), "Compare") :
             starts \in [1..BatchPairs -> BatchStarts]}

\* handle_tournament_mode: the loop over path_2 in ai_paths[i + 1..] keeping
\* the order of the pair in its second match too.
RECURSIVE PairLoop_noswap(_, _, _, _)
PairLoop_noswap(roster, i, j, acc) ==
    IF j > Len(roster) THEN acc
    ELSE PairLoop_noswap(roster, i, j + 1,
            [games |-> acc.games \o
                <<GameNew(acc.id, <<AIPlayer(roster[i]), AIPlayer(roster[j])>>),
                  GameNew(acc.id + 1, <<AIPlayer(roster[i]), AIPlayer(roster[j])>>)>>,
             id |-> acc.id + 2])

\* handle_tournament_mode: the loop over path_2 in ai_paths[i + 1..], j the
\* index of path_2; acc is games and id.
RECURSIVE PairLoop(_, _, _, _)
PairLoop(roster, i, j, acc) ==
    IF j > Len(roster) THEN acc
    ELSE PairLoop(roster, i, j + 1,
            [games |-> acc.games \o
                <<GameNew(acc.id, <<AIPlayer(roster[i]), AIPlayer(roster[j])>>),
                  GameNew(acc.id + 1, <<AIPlayer(roster[j]), AIPlayer(roster[i])>>)>>,
             id |-> acc.id + 2])

\* handle_tournament_mode: the loop over (i, path_1).
RECURSIVE RosterLoop(_, _, _)
RosterLoop(roster, i, acc) ==
    IF i > Len(roster) THEN acc
    ELSE RosterLoop(roster, i + 1, PairLoop(roster, i, i + 1, acc))

\* handle_tournament_mode: the matches of the roster ai_paths.
TournamentGames(roster) == RosterLoop(roster, 1, [games |-> <<>>, id |-> 0]).games

\* Rosters handle_tournament_mode accepts (two or more paths, no path
\* twice): two and three agents, in two orders each.
Rosters ==
    {<<"ai1", "ai2">>, <<"ai2", "ai1">>,
     <<"ai1", "ai2", "ai3">>, <<"ai3", "ai2", "ai1">>}

\* The command line of a batch: its mode and its agents.
Cmd(mode, agents) == [op |-> mode, res |-> agents]

BatchInit ==
    /\ game = GameNew(0, <<HumanPlayer, HumanPlayer>>)
    /\ phase = "arena"
    /\ host = "running"
    /\ \/ /\ last = Cmd("compare", <<"ai1", "ai2">>)
          /\ arena \in CompareBatches
       \/ \E roster \in Rosters :
             /\ last = Cmd("tournament", roster)
             /\ arena \in LastTicks(StartAll(TournamentGames(roster)), "Tournament")
    /\ report = NoReport

BatchNext == Tick

BatchSpec == BatchInit /\ [][BatchNext]_vars


(***************************************************************************)
(* Properties of the reports (BatchSpec).                                  *)
(***************************************************************************)
\* The side the agent `path` plays in the match g, and what the matches gs
\* are worth to it, in half points.
SideOf(g, path) == IF g.players[1].path = path THEN X ELSE O

AgentScore(gs, path) ==
    SumTo([k \in DOMAIN gs |->
             IF \E i \in 1..2 : gs[k].players[i].path = path
             THEN score_for(gs[k], SideOf(gs[k], path)) ELSE 0],
          Len(gs))

StartOf(g) == g.history[1][1]

\* C26: in a compare batch match 2i has agent 1 moving first and match
\* 2i + 1 agent 2, both on the same start; the report credits each agent with
\* score_for of the side it played in every match, so the two scores add up
\* to the number of matches, and when the first mover wins every one of four
\* matches both scores are 2.0 (4 half points).
C26_CompareBookkeeping ==
    arena.submode = "Compare" =>
       /\ \A k \in DOMAIN Games :
             /\ Games[k].id = k - 1
             /\ <<Games[k].players[1].path, Games[k].players[2].path>> =
                   (IF (k - 1) % 2 = 0 THEN <<"ai1", "ai2">> ELSE <<"ai2", "ai1">>)
             /\ (k - 1) % 2 = 0 => StartOf(Games[k + 1]) = StartOf(Games[k])
       /\ report # NoReport =>
             /\ report.kind = "Compare"
             /\ report.score1 = AgentScore(Games, "ai1")
             /\ report.score2 = AgentScore(Games, "ai2")
             /\ report.score1 + report.score2 = 2 * Len(Games)
             /\ (Len(Games) = 4 /\ \A k \in DOMAIN Games : Games[k].winner = X)
                   => (report.score1 = 4 /\ report.score2 = 4)

\* A batch of four reported with the first mover the winner of each match.
C26_Witness ==
    /\ report.kind = "Compare" /\ Len(Games) = 4
    /\ \A k \in DOMAIN Games : Games[k].winner = X
    /\ report.score1 = 4 /\ report.score2 = 4

\* A batch reported with a drawn match and unequal scores.
C26_WitnessDraw ==
    /\ report.kind = "Compare"
    /\ \E k \in DOMAIN Games : Games[k].winner = Empty
    /\ report.score1 > report.score2


Roster == last.res

\* C27: the matches of a tournament on a roster of n distinct agents are
\* n * (n - 1), one for every ordered pair (a, b) of different agents with a
\* moving first, so every two agents meet exactly twice, once with each of
\* them moving first; the ids of the matches are 0, 1, ... in list order.
C27_TournamentPairing ==
    last.op = "tournament" =>
       /\ Len(Games) = Len(Roster) * (Len(Roster) - 1)
       /\ \A k \in DOMAIN Games : Games[k].id = k - 1
       /\ \A a, b \in DOMAIN Roster :
             Cardinality({k \in DOMAIN Games :
                            /\ Games[k].players[1].path = Roster[a]
                            /\ Games[k].players[2].path = Roster[b]})
                = (IF a = b THEN 0 ELSE 1)
       /\ \A a, b \in DOMAIN Roster : a # b =>
             Cardinality({k \in DOMAIN Games :
                            {Games[k].players[1].path, Games[k].players[2].path}
                               = {Roster[a], Roster[b]}}) = 2

\* A tournament of three agents, its six matches over and reported.
C27_Witness ==
    /\ last.op = "tournament" /\ Len(Roster) = 3 /\ Len(Games) = 6
    /\ report # NoReport


Agents == {Games[k].players[i].path : k \in DOMAIN Games, i \in 1..2}

\* C28: the tournament report has one row for each agent; the total of a row
\* is the sum, over the matches the agent appears in, of score_for for the
\* side it played, and the rows are in non-increasing order of total.
C28_TournamentReport ==
    report.kind = "Tournament" =>
       /\ Len(report.rows) = Cardinality(Agents)
       /\ {report.rows[i].path : i \in DOMAIN report.rows} = Agents
       /\ \A i \in DOMAIN report.rows :
             report.rows[i].score = AgentScore(Games, report.rows[i].path)
       /\ \A i, j \in DOMAIN report.rows :
             i < j => report.rows[i].score >= report.rows[j].score

\* A report of three agents with three different totals, the roster's last
\* agent first.
C28_Witness ==
    /\ report.kind = "Tournament" /\ Len(report.rows) = 3
    /\ report.rows[1].score > report.rows[2].score
    /\ report.rows[2].score > report.rows[3].score
    /\ report.rows[1].path = Roster[3]

\* A report of three agents, two of them level.
C28_WitnessTie ==
    /\ report.kind = "Tournament" /\ Len(report.rows) = 3
    /\ report.rows[1].score = report.rows[2].score
    /\ report.rows[2].score > report.rows[3].score


(***************************************************************************)
(* elo.rs: the ratings of a finished tournament.  A score is in half       *)
(* points (1.0 is 2), a rating in Elo points.  A HashMap is a function on  *)
(* its keys.                                                               *)
(***************************************************************************)
\* score_to_outcome counting a draw as a win.
score_to_outcome_nodraw(score) ==
    IF score = 0 THEN "LOSS"
    ELSE IF score = 1 \/ score = 2 THEN "WIN"
    ELSE "panic"

\* score_to_outcome taking the nearest of the three outcomes.
score_to_outcome_nearest(score) ==
    IF score <= 0 THEN "LOSS"
    ELSE IF score = 1 THEN "DRAW"
    ELSE "WIN"

\* score_to_outcome; any other score panics.
score_to_outcome(score) ==
    IF score = 0 THEN "LOSS"
    ELSE IF score = 1 THEN "DRAW"
    ELSE IF score = 2 THEN "WIN"
    ELSE "panic"

HalfGame(opponent_, outcome_) == [opponent |-> opponent_, outcome |-> outcome_]

\* elos.entry(player).or_insert(1000.0)
Baseline == 1000

OrInsert(elos, player) ==
    IF player \in DOMAIN elos THEN elos ELSE elos @@ (player :> Baseline)

\* games_by_player.entry(player).or_default().push(half_game)
PushHalfGame(by_player, player, half_game) ==
    IF player \in DOMAIN by_player
    THEN [by_player EXCEPT ![player] = Append(@, half_game)]
    ELSE by_player @@ (player :> <<half_game>>)

\* The first loop of from_single_tournament giving both players the outcome
\* of the first.
RECURSIVE HalfGameLoop_nomirror(_, _, _)
HalfGameLoop_nomirror(games, i, acc) ==
    IF i > Len(games) \/ acc.halt # None THEN acc
    ELSE IF "panic" \in {score_to_outcome(games[i].score),
                         score_to_outcome(2 - games[i].score)}
    THEN [acc EXCEPT !.halt = "panic"]
    ELSE HalfGameLoop_nomirror(games, i + 1,
            [halt |-> None,
             elos |-> OrInsert(OrInsert(acc.elos, games[i].players[1]),
                               games[i].players[2]),
             games_by_player |->
                PushHalfGame(
                   PushHalfGame(acc.games_by_player, games[i].players[1],
                      HalfGame(games[i].players[2], score_to_outcome(games[i].score))),
                   games[i].players[2],
                   HalfGame(games[i].players[1], score_to_outcome(games[i].score)))])

\* from_single_tournament, its first loop: the maps elos and
\* games_by_player after the games from the i-th on; halt is "panic" when
\* score_to_outcome panicked on a game.
RECURSIVE HalfGameLoop(_, _, _)
HalfGameLoop(games, i, acc) ==
    IF i > Len(games) \/ acc.halt # None THEN acc
    ELSE IF "panic" \in {score_to_outcome(games[i].score),
                         score_to_outcome(2 - games[i].score)}
    THEN [acc EXCEPT !.halt = "panic"]
    ELSE HalfGameLoop(games, i + 1,
            [halt |-> None,
             elos |-> OrInsert(OrInsert(acc.elos, games[i].players[1]),
                               games[i].players[2]),
             games_by_player |->
                PushHalfGame(
                   PushHalfGame(acc.games_by_player, games[i].players[1],
                      HalfGame(games[i].players[2], score_to_outcome(games[i].score))),
                   games[i].players[2],
                   HalfGame(games[i].players[1], score_to_outcome(2 - games[i].score)))])

HalfGames(games) ==
    HalfGameLoop(games, 1, [halt |-> None, elos |-> <<>>, games_by_player |-> <<>>])

\* skillratings' expected score of a player against an opponent rated d
\* points above it, in sixteenths and linear in d: a half at d = 0, nothing
\* from 400 points up; the expected scores of the two sides of a game add
\* up to one.
Expected16(d) ==
    IF d >= 400 THEN 0
    ELSE IF d <= 0 - 400 THEN 16
    ELSE IF d >= 0 THEN 8 - (d \div 50)
    ELSE 8 + ((0 - d) \div 50)

Points16(outcome) ==
    IF outcome = "WIN" THEN 16 ELSE IF outcome = "DRAW" THEN 8 ELSE 0

\* skillratings::elo::elo_rating_period: the rating after a period of
\* results, each a pair of the opponent's rating and the outcome, every
\* result taken against the rating the period began with.
RECURSIVE elo_rating_period(_, _, _)
elo_rating_period(rating, results, k) ==
    IF results = <<>> THEN rating
    ELSE elo_rating_period(rating, Tail(results), k)
         + (k * (Points16(Head(results)[2]) - Expected16(Head(results)[1] - rating)))
              \div 16

\* new_elo
new_elo(player, games, elos, k) ==
    elo_rating_period(elos[player],
                      [i \in DOMAIN games |-> <<elos[games[i].opponent], games[i].outcome>>],
                      k)

\* One round of from_single_tournament rating against the map it is filling.
RECURSIVE VisitLoop_inplace(_, _, _, _, _, _)
VisitLoop_inplace(order, i, by_player, elos, new_elos, k) ==
    IF i > Len(order) THEN new_elos
    ELSE VisitLoop_inplace(order, i + 1, by_player, elos,
            [new_elos EXCEPT ![order[i]] =
                new_elo(order[i], by_player[order[i]], new_elos, k)],
            k)

\* from_single_tournament, the loop over (player, games) in
\* &games_by_player from the i-th entry on; order is the order the map is
\* iterated in.
RECURSIVE VisitLoop(_, _, _, _, _, _)
VisitLoop(order, i, by_player, elos, new_elos, k) ==
    IF i > Len(order) THEN new_elos
    ELSE VisitLoop(order, i + 1, by_player, elos,
            [new_elos EXCEPT ![order[i]] =
                new_elo(order[i], by_player[order[i]], elos, k)],
            k)

\* from_single_tournament, the loop for _i in 0..iterations; a round of an
\* empty map changes nothing.
RECURSIVE RoundLoop(_, _, _, _, _)
RoundLoop(iterations, order, by_player, elos, k) ==
    IF iterations = 0 \/ DOMAIN elos = {} THEN elos
    ELSE RoundLoop(iterations - 1, order, by_player,
                   VisitLoop(order, 1, by_player, elos, elos, k), k)

\* from_single_tournament after its first loop left hg.
Rated(hg, iterations, k, order) ==
    [halt |-> hg.halt,
     elos |-> IF hg.halt # None THEN <<>>
              ELSE RoundLoop(iterations, order, hg.games_by_player, hg.elos, k)]

\* elo::from_single_tournament; order is the order games_by_player is
\* iterated in.  halt is "panic" when the call panicked and returned no map.
from_single_tournament(games, iterations, k, order) ==
    Rated(HalfGames(games), iterations, k, order)


(***************************************************************************)
(* The rating engine on its own: finished games in, ratings out.           *)
(***************************************************************************)
MaxRated == 2
Participants == {"a", "b", "c"}

\* finish_tournament's call: from_single_tournament(&elo_games, 50, 16.0)
Iterations == 50
K == 16

\* The games of two different participants with a score of 0, 0.5 or 1, and
\* with the scores -0.5 and 1.5, which are none.
RatedGame ==
    {g \in [players : Participants \X Participants, score : (0 - 1)..3] :
        g.players[1] # g.players[2]}

\* The lists of up to MaxRated games; the names being arbitrary, the first
\* game is one of a against b.
RatedGames ==
    {games \in UNION {[1..n -> RatedGame] : n \in 1..MaxRated} :
        games[1].players = <<"a", "b">>}

\* The games of a finished tournament in which every two of the agents of
\* the roster met twice, once each way, as finish_tournament hands them on.
RoundRobins(roster) ==
    {[i \in DOMAIN TournamentGames(roster) |->
        [players |-> <<TournamentGames(roster)[i].players[1].path,
                       TournamentGames(roster)[i].players[2].path>>,
         score |-> scores[i]]] :
       scores \in [DOMAIN TournamentGames(roster) -> 0..2]}

PlayersOf(games) == {games[i].players[j] : i \in DOMAIN games, j \in 1..2}

RatingInit ==
    /\ game = GameNew(0, <<HumanPlayer, HumanPlayer>>)
    /\ phase = "rating"
    /\ host = "running"
    /\ \E games \in RatedGames \cup RoundRobins(<<"a", "b">>)
                           \cup RoundRobins(<<"a", "b", "c">>) :
          last = [op |-> "games", res |-> games, iterations |-> 0, out |-> <<>>]
    /\ arena = ArenaNew(<<>>, 0, "Tournament")
    /\ report = NoReport

\* One call of from_single_tournament on the games, for no round, one round
\* and the rounds finish_tournament asks for; the map games_by_player is
\* iterated in any order.
Rate ==
    /\ last.op = "games" /\ host = "running"
    /\ \E iterations \in {0, 1, Iterations} :
       \E order \in HashOrders(PlayersOf(last.res)) :
       \E r \in {from_single_tournament(last.res, iterations, K, order)} :
          IF r.halt # None
          THEN host' = r.halt /\ last' = last
          ELSE /\ host' = host
               /\ last' = [op |-> "rated", res |-> last.res,
                           iterations |-> iterations, out |-> r.elos]
    /\ UNCHANGED <<game, phase, arena, report>>

RatingNext == Rate

RatingSpec == RatingInit /\ [][RatingNext]_vars

\* A round computed for every participant at once from the ratings before
\* it.
AtOnce(by_player, elos, k) ==
    [p \in DOMAIN elos |-> new_elo(p, by_player[p], elos, k)]

RECURSIVE AtOnceRounds(_, _, _, _)
AtOnceRounds(n, by_player, elos, k) ==
    IF n = 0 \/ DOMAIN elos = {} THEN elos
    ELSE AtOnceRounds(n - 1, by_player, AtOnce(by_player, elos, k), k)

\* C29: every round of from_single_tournament rates each participant from
\* the ratings of the round before only, so the ratings that come out are
\* those of rounds computed at once for all, whatever the order in which the
\* participants are visited, and the same for the same games and number of
\* rounds.
C29_RoundsSimultaneous ==
    last.op = "rated" =>
       /\ last.out = AtOnceRounds(last.iterations,
                                  HalfGames(last.res).games_by_player,
                                  HalfGames(last.res).elos, K)
       /\ \A order \in HashOrders(PlayersOf(last.res)) :
             from_single_tournament(last.res, last.iterations, K, order).elos = last.out

\* Three participants rated over all the rounds, the ratings no longer all
\* at the baseline.
C29_Witness ==
    /\ last.op = "rated" /\ last.iterations = Iterations
    /\ Cardinality(DOMAIN last.out) = 3
    /\ \E p \in DOMAIN last.out : last.out[p] > Baseline
    /\ \E p \in DOMAIN last.out : last.out[p] < Baseline

Mirror(outcome) ==
    IF outcome = "WIN" THEN "LOSS" ELSE IF outcome = "LOSS" THEN "WIN" ELSE "DRAW"

\* The half-games of p in the order of the games it appears in.
RECURSIVE HalfGamesOf(_, _)
HalfGamesOf(games, p) ==
    IF games = <<>> THEN <<>>
    ELSE (IF Head(games).players[1] = p
          THEN <<HalfGame(Head(games).players[2], score_to_outcome(Head(games).score))>>
          ELSE IF Head(games).players[2] = p
          THEN <<HalfGame(Head(games).players[1],
                          Mirror(score_to_outcome(Head(games).score)))>>
          ELSE <<>>)
         \o HalfGamesOf(Tail(games), p)

\* C30: for every game (A, B, score) A gets one half-game against B with the
\* outcome of score and B one against A with the mirrored outcome (a win for
\* a loss, a draw for a draw); a participant has as many half-games as games
\* it appears in, and every participant starts at 1000.
C30_HalfGames ==
    (\A i \in DOMAIN last.res : last.res[i].score \in 0..2) =>
    \A hg \in {HalfGames(last.res)} :
       /\ hg.halt = None
       /\ DOMAIN hg.games_by_player = PlayersOf(last.res)
       /\ DOMAIN hg.elos = PlayersOf(last.res)
       /\ \A p \in PlayersOf(last.res) :
             /\ hg.games_by_player[p] = HalfGamesOf(last.res, p)
             /\ Len(hg.games_by_player[p]) =
                   Cardinality({i \in DOMAIN last.res : p \in {last.res[i].players[1],
                                                               last.res[i].players[2]}})
             /\ hg.elos[p] = 1000
       /\ (last.op = "rated" /\ last.iterations = 0) =>
             last.out = [p \in PlayersOf(last.res) |-> 1000]

\* Two games rated without a round: a win of a over b, then a draw of c and a.
C30_Witness ==
    /\ last.op = "rated" /\ last.iterations = 0
    /\ Len(last.res) = 2
    /\ last.res[1] = [players |-> <<"a", "b">>, score |-> 2]
    /\ last.res[2] = [players |-> <<"c", "a">>, score |-> 1]
    /\ HalfGames(last.res).games_by_player["a"] =
          <<HalfGame("b", "WIN"), HalfGame("c", "DRAW")>>
    /\ HalfGames(last.res).games_by_player["b"] = <<HalfGame("a", "LOSS")>>
    /\ last.out["c"] = 1000


ValidScores(games) == \A i \in DOMAIN games : games[i].score \in 0..2

\* C31: from_single_tournament given a game whose score is none of 0.0, 0.5
\* and 1.0 panics and returns no ratings, for every number of rounds; it
\* returns ratings exactly for the lists whose scores are all of those.
C31_InvalidScoreRejected ==
    /\ \A iterations \in {0, 1} :
       \A order \in HashOrders(PlayersOf(last.res)) :
       \A r \in {from_single_tournament(last.res, iterations, K, order)} :
          /\ (r.halt = "panic") <=> ~ValidScores(last.res)
          /\ r.halt = "panic" => r.elos = <<>>
    /\ last.op = "rated" => ValidScores(last.res)
    /\ host = "panic" => (~ValidScores(last.res) /\ last.op = "games")

\* The call has panicked on a list whose second game has the score 1.5.
C31_Witness ==
    /\ host = "panic"
    /\ Len(last.res) = 2 /\ last.res[1].score = 2 /\ last.res[2].score = 3


AllDrawn(games) == \A i \in DOMAIN games : games[i].score = 1

\* C32: when every game is a draw every participant is rated 1000, the
\* baseline, after any number of rounds.
C32_DrawsKeepBaseline ==
    AllDrawn(last.res) =>
       /\ \A iterations \in 0..3 :
          \A order \in HashOrders(PlayersOf(last.res)) :
          \A r \in {from_single_tournament(last.res, iterations, K, order)} :
             r.halt = None /\ \A p \in PlayersOf(last.res) : r.elos[p] = Baseline
       /\ last.op = "rated" => \A p \in PlayersOf(last.res) : last.out[p] = Baseline

\* Two participants, two drawn games, one each way, rated over 50 rounds
\* with K = 16.
C32_Witness ==
    /\ last.op = "rated" /\ last.iterations = 50 /\ K = 16
    /\ last.res = <<[players |-> <<"a", "b">>, score |-> 1],
                    [players |-> <<"b", "a">>, score |-> 1]>>
    /\ last.out["a"] = 1000 /\ last.out["b"] = 1000


RECURSIVE SumOver(_, _)
SumOver(f, S) ==
    IF S = {} THEN 0
    ELSE LET x == CHOOSE x \in S : TRUE IN f[x] + SumOver(f, S \ {x})

\* Every two of the participants met exactly twice, once each way.
IsRoundRobin(games) ==
    /\ ValidScores(games)
    /\ \A p, q \in PlayersOf(games) : p # q =>
          Cardinality({i \in DOMAIN games : games[i].players = <<p, q>>}) = 1
    /\ Len(games) = Cardinality(PlayersOf(games)) * (Cardinality(PlayersOf(games)) - 1)

Distance(x, y) == IF x >= y THEN x - y ELSE y - x

Live(g) == {i \in 1..2 : g.players[i].ai_run_handle.child = "alive"}

RECURSIVE LiveUpTo(_, _)
LiveUpTo(gs, n) ==
    IF n = 0 THEN 0 ELSE Cardinality(Live(gs[n])) + LiveUpTo(gs, n - 1)

\* C34: in the arena a live agent process is that of the player on turn in
\* a started match that is not over, so a match has at most one, a queued
\* or finished match has none, and there are at most max_concurrency in
\* all; a handle is held by one player of one match.
C34_LiveProcessesBounded ==
    /\ \A k \in DOMAIN Games :
          /\ Cardinality(Live(Games[k])) <= 1
          /\ \A i \in Live(Games[k]) :
                /\ Started(k)
                /\ ~is_game_over(Games[k])
                /\ Games[k].pos.next_player # Empty
                /\ i = TileIdx(Games[k].pos.next_player) + 1
          /\ (~Started(k) \/ is_game_over(Games[k])) => Live(Games[k]) = {}
    /\ LiveUpTo(Games, Len(Games)) <= arena.max_concurrency

\* As many live agents as the budget allows while one match is over after a
\* timeout or a forfeit and another is still queued or was started after it.
C34_Witness ==
    /\ arena.max_concurrency >= 1
    /\ LiveUpTo(Games, Len(Games)) = arena.max_concurrency
    /\ \E k \in DOMAIN Games :
          /\ is_game_over(Games[k])
          /\ \E i \in 1..2 : Games[k].players[i].ai_run_handle.child = "killed"
    /\ \E k \in DOMAIN Games : Len(Games[k].history) > 1 /\ Live(Games[k]) # {}


(***************************************************************************)
(* Handles and outcomes of a match (GameSpec).                             *)
(***************************************************************************)
\* C35: in a match that has been initialized and is not over, an agent on
\* turn holds a run handle with a live child, so that neither the expect of
\* AI::update nor the unwrap of AI::interrupt fails on it, whatever
\* initialize, update, a click, Visual::undo, undo(n) and the manual undo
\* sequence did before.
C35_OnTurnAgentHasHandle ==
    (/\ host = "running" /\ phase = "run"
     /\ game.winner = None /\ game.pos.next_player # Empty
     /\ game.players[OnTurn].kind = "AI")
    => /\ game.players[OnTurn].ai_run_handle # NoHandle
       /\ game.players[OnTurn].ai_run_handle.child = "alive"
       /\ PlayerInterrupt(game.players[OnTurn]).halt = None
       /\ \A obs \in {ObsRunning, ObsLate, ObsExit(FALSE, <<>>)} :
             update(game, obs).halt = None

\* An agent is on turn, with a handle, after an undo took moves back.
C35_Witness ==
    /\ host = "running" /\ phase = "run"
    /\ game.winner = None /\ game.pos.next_player # Empty
    /\ game.players[OnTurn].kind = "AI"
    /\ game.players[OnTurn].ai_run_handle.child = "alive"
    /\ last.op \in {"undo", "undo_n", "manual_undo"}
    /\ Len(game.history) >= 1


(***************************************************************************)
(* Exit before deadline (Spec).                                            *)
(***************************************************************************)
\* An agent that has exited with status 0 and one legal move token on
\* stdout, seen by a poll one tick past the time limit.
LateAnswer(mv) == ObsExitAt(TimeLimit + 1, TRUE, move_string(mv), <<>>)

\* C36: check looks at the exit of the child before it looks at the
\* deadline: a child that has exited when it is polled is classified
\* Success, InvalidOuput or RuntimeError (its streams being text) and never
\* TimeOut or Running, also when more than the time limit has elapsed;
\* TimeOut is returned only for a child that is alive at the poll.  A legal
\* move that arrives late is played and the match is not forfeited.
C36_ExitBeforeDeadline ==
    /\ \A h \in AliveHandles : \A obs \in Observations :
          \A c \in {check(h, obs)} :
             /\ obs.kind = "exit" =>
                   /\ c.res.tag \notin {"TimeOut", "Running"}
                   /\ c.h.child \in {"exited_ok", "exited_err"}
                   /\ (IsUtf8(obs.stdout) /\ IsUtf8(obs.stderr)) =>
                         c.res.tag \in {"Success", "InvalidOuput", "RuntimeError"}
             /\ c.res = TimeOut => obs.kind = "alive" /\ obs.elapsed > TimeLimit
    /\ AgentOut => \A mv \in valid_moves(game.pos) :
          /\ LateAnswer(mv) \in Observations
          /\ check(game.players[OnTurn].ai_run_handle, LateAnswer(mv)).res.tag = "Success"
          /\ \A r \in {update(game, LateAnswer(mv))} :
                /\ r.res = "Ok" /\ r.halt = None
                /\ Len(r.g.history) = Len(game.history) + 1
                /\ r.g.winner # Opponent(game.pos.next_player) \/ PosIsGameOver(r.g.pos)

C36_Witness ==
    /\ host = "running"
    /\ last = Op("update", "Ok")
    /\ Len(game.history) >= 2
    /\ AgentOut
    /\ \E mv \in valid_moves(game.pos) :
          check(game.players[OnTurn].ai_run_handle, LateAnswer(mv)).res.tag = "Success"


(***************************************************************************)
(* Visual::undo (GameSpec).                                                *)
(***************************************************************************)
BothAgents(g) == \A i \in 1..2 : g.players[i].kind = "AI"

\* A human is to move in the position of history entry j.
HumanAt(g, j) ==
    /\ g.history[j][1].next_player # Empty
    /\ g.players[TileIdx(g.history[j][1].next_player) + 1].kind = "Human"

\* C37: Visual::undo of a started match with a human player pops at least
\* one history entry when there are two or more, and goes on popping until
\* a human is to move or only the initial entry is left; it never pops the
\* initial entry; winner is unset when an entry was popped; it ends with
\* initialize_next_player, after which an agent that is to move waits for
\* a new child.  With nothing to pop, initialize_next_player leaves a
\* match that is not over as it was and gives a match that is over the
\* winner of its position.  With two agents Visual::undo changes nothing.
C37_VisualUndo ==
    (host = "running" /\ phase = "run") =>
       \A r \in {VisualUndo(game)} :
          IF BothAgents(game)
          THEN r.g = game /\ r.halt = None /\ r.inits = 0
          ELSE \A len \in {Len(r.g.history)} :
             /\ r.halt = None
             /\ len >= 1
             /\ r.g.history = SubSeq(game.history, 1, len)
             /\ r.g.pos = game.history[len][1]
             /\ Len(game.history) >= 2 => len < Len(game.history)
             /\ len = 1 \/ HumanAt(game, len)
             /\ \A j \in (len + 1)..(Len(game.history) - 1) : ~HumanAt(game, j)
             /\ len < Len(game.history) => r.g.winner = None
             /\ len = Len(game.history) =>
                   r.g.winner = IF game.winner = None THEN None ELSE PosWinner(game.pos)
             /\ r.g.winner = None =>
                   /\ r.g.pos.next_player # Empty
                   /\ \A p \in {r.g.players[TileIdx(r.g.pos.next_player) + 1]} :
                         IF p.kind = "AI"
                         THEN p.ai_run_handle = NewHandle /\ r.inits = 1
                         ELSE r.inits = 0

\* Visual::undo has stopped at a human's turn after the initial entry, the
\* other player being an agent.
C37_Witness ==
    /\ host = "running" /\ phase = "run"
    /\ last = Op("undo", "")
    /\ ~BothAgents(game)
    /\ \E i \in 1..2 : game.players[i].kind = "AI"
    /\ Len(game.history) >= 2
    /\ HumanAt(game, Len(game.history))
    /\ game.winner = None

\* Visual::undo has left a match of two agents as it was.
C37_WitnessAgents ==
    /\ host = "running" /\ phase = "run"
    /\ last = Op("undo", "")
    /\ BothAgents(game)
    /\ Len(game.history) >= 2
    /\ game.winner = None
    /\ game.players[OnTurn].ai_run_handle.child = "alive"


(***************************************************************************)
(* The displayed game (ArenaSpec).                                         *)
(***************************************************************************)
\* The arena has matches and may run at least one.
Admitting == Len(arena.games) >= 1 /\ arena.max_concurrency >= 1

\* The display pointer of a running arena is an index of games and, once a
\* tick has been made, of a started game; no tick panics, so neither the
\* index games[showed_game_idx] nor first_unstarted - 1 fails.
C38_PointerValid ==
    (host = "running" /\ phase = "arena" /\ Admitting) =>
       /\ arena.showed_game_idx >= 0
       /\ arena.showed_game_idx < Len(arena.games)
       /\ arena.first_unstarted >= 1 => arena.showed_game_idx < arena.first_unstarted
       /\ start_new_games(arena).halt = None
       /\ start_new_games(arena).a.first_unstarted >= 1
       /\ \A obs \in ObsChoices(arena) : update_ai_arena(arena, obs).halt = None

\* A tick moves the pointer exactly as the displayed game tells: over when
\* the tick looks at it, the pointer becomes the index of the last started
\* game; not over, the pointer stays.
C38_PointerStep ==
    (phase = "arena" /\ Admitting /\ arena' # arena) =>
       /\ arena'.first_unstarted >= 1
       /\ arena'.showed_game_idx < arena'.first_unstarted
       /\ IF is_game_over(arena.games[arena.showed_game_idx + 1])
          THEN arena'.showed_game_idx = arena'.first_unstarted - 1
          ELSE arena'.showed_game_idx = arena.showed_game_idx

\* C38: for a non-empty list of matches and max_concurrency >= 1 the display
\* pointer is always an index of a match, first_unstarted - 1 never goes
\* below zero, after the first tick the pointer is the index of a started
\* match, and it changes only when the displayed match is over, then to the
\* last started match.
C38_DisplayPointer == []C38_PointerValid /\ [][C38_PointerStep]_vars

\* The display has moved on from the first match, which is over, to the
\* second.
C38_Witness ==
    /\ host = "running" /\ phase = "arena" /\ Admitting
    /\ arena.showed_game_idx = 1
    /\ arena.first_unstarted = 2
    /\ is_game_over(arena.games[1])
    /\ ~is_game_over(arena.games[2])


(***************************************************************************)
(* Admission fills the budget (ArenaSpec).                                 *)
(***************************************************************************)
\* C39: right after start_new_games of any tick either no match is queued
\* (first_unstarted is the number of matches) or the matches that are
\* initialized and not over are exactly max_concurrency; the matches it
\* admits are the queued ones in order, as many as the free budget allows.
C39_AdmissionFillsBudget ==
    (host = "running" /\ phase = "arena") =>
       \A s \in {start_new_games(arena)} :
          /\ s.halt = None
          /\ \/ s.a.first_unstarted = Len(s.a.games)
             \/ Ongoing(s.a) = s.a.max_concurrency
          /\ s.a.first_unstarted - arena.first_unstarted =
                Min(arena.max_concurrency - Ongoing(arena),
                    Len(arena.games) - arena.first_unstarted)
          /\ Ongoing(s.a) = Ongoing(arena) + (s.a.first_unstarted - arena.first_unstarted)

\* With a budget of one the first match is over and the next tick's
\* admission takes the second from the queue.
C39_Witness ==
    /\ host = "running" /\ phase = "arena"
    /\ arena.max_concurrency = 1
    /\ arena.first_unstarted = 1
    /\ is_game_over(arena.games[1])
    /\ Len(arena.games) >= 2
    /\ start_new_games(arena).a.first_unstarted = 2
    /\ Ongoing(start_new_games(arena).a) = 1


(***************************************************************************)
(* Position and outcome (GameSpec).                                        *)
(***************************************************************************)
\* The position of g is over only with winner the winner of the position;
\* with no winner the position is not over and names X or O as next.
Consistent(g) ==
    /\ PosIsGameOver(g.pos) => g.winner = PosWinner(g.pos)
    /\ g.winner = None =>
          /\ ~PosIsGameOver(g.pos)
          /\ g.pos.next_player \in {X, O}

\* C40: a match built on a position that is not over stays consistent
\* through initialize, update, a click (play, then initialize_next_player),
\* Visual::undo, undo(n) and the manual undo sequence: a position that is
\* over has winner set to its winner, and a match without winner has a
\* position that is not over with X or O to move.  Game::play of a legal
\* move keeps it so.
C40_PositionOutcomeConsistent ==
    ~PosIsGameOver(game.history[1][1]) =>
       /\ Consistent(game)
       /\ (phase = "run" /\ game.winner = None) =>
             \A mv \in valid_moves(game.pos) : Consistent(play(game, mv))

\* A match that ended on the board, and one undone from there.
C40_Witness ==
    /\ host = "running" /\ phase = "run"
    /\ ~PosIsGameOver(game.history[1][1])
    /\ PosIsGameOver(game.pos)
    /\ game.pos.next_player = Empty
    /\ game.winner = PosWinner(game.pos)
    /\ Len(game.history) > 2

C40_WitnessUndone ==
    /\ host = "running" /\ phase = "run"
    /\ last.op \in {"undo", "undo_n", "manual_undo"}
    /\ game.winner = None
    /\ Len(game.history) >= 2
    /\ \E mv \in valid_moves(game.pos) : PosIsGameOver(PosPlay(game.pos, mv))
====
